---- MODULE Spec2Model ----
(***************************************************************************)
(* A model of the picoclaw gateway's request-handling substrate:           *)
(*   - the MCP client manager (pkg/mcp/client.go),                         *)
(*   - the schedule provider (ScheduleProvider),                           *)
(*   - the provider fallback chain with its cooldown tracker,              *)
(*   - the safety filter (pkg/safety),                                     *)
(*   - the memory engine (pkg/memory over the vector store),               *)
(*   - the dashboard's activity buffer,                                    *)
(*   - the gateway's webhook and heartbeat handlers,                       *)
(*   - the MCP tool adapter,                                               *)
(*   - the metrics decorator of the providers,                             *)
(*   - the orchestrator's mailbox,                                         *)
(*   - the orchestrator's family store of chores and lists,                *)
(*   - the MCP client manager under concurrent callers,                    *)
(*   - the configuration the schedule provider resolves with,              *)
(*   - the orchestrator's MCP server,                                      *)
(*   - the safety filter across levels and users.                          *)
(* Each subsystem has its own variables and its own specification; a       *)
(* specification leaves the variables of the other subsystems unchanged.   *)
(***************************************************************************)
EXTENDS Integers, Sequences, FiniteSets, TLC

VARIABLES
    Servers,    \* MCPManager.Servers: server name -> MCPServer record
    crashed,    \* TRUE once a handler has panicked (the process is gone)
    schedule,   \* ScheduleProvider.schedule: [Rules, Default]
    location,   \* ScheduleProvider.location, as minutes east of UTC
    now,        \* the instant nowFunc() returns, in UTC: [weekday, hour, minute]
    chat,       \* outcome of the last ScheduleProvider.Chat call
    clock,          \* fallback chain: the current time
    cooldownUntil,  \* cooldown tracker: chain entry -> end of its cooldown
    failures,       \* cooldown tracker: chain entry -> consecutive failures
    fallback,       \* outcome of the last Chat through the fallback chain
    filter,     \* safety.Filter: [level, birthYear]
    year,       \* the year time.Now().Year() returns
    safety,     \* what the last call on the filter returned
    memConfig,  \* memory.Manager.config: [Enabled, ChunkSize]
    nanos,      \* the reading of time.Now().UnixNano()
    points,     \* the collection of the vector store: point id -> record
    archives,   \* the ArchiveSession calls made so far, in order
    search,     \* what the last Search or SearchByDate call returned
    buffer,     \* ActivityBuffer: [events, size]
    mu,         \* ActivityBuffer.mu: the caller that holds it
    adding,     \* caller -> where it is in Add, and with which event
    added,      \* the events appended so far, in order
    issued,     \* the number of Add calls made so far
    webhooks,     \* cfg.Gateway.Webhooks: webhook id -> [Format, Secret, Agent]
    delivery,     \* what the webhook handler did with the last request
    forwarded,    \* the calls of the webhook processor so far, in order
    beats,        \* the heartbeats handled so far, in order
    outbound,     \* what the heartbeat service has sent on the bus
    toolCalls,    \* the calls of MCPTool.Execute so far, in order
    registry,     \* the LLM metrics recorded so far
    wrappedCalls, \* the calls of the wrapped provider so far, in order
    metricChats,  \* the calls of MetricsWrapper.Chat so far, in order
    mailbox,      \* MemoryStore.messages: message id -> message
    sent,         \* the number of SendMessage calls made so far
    listing,      \* the last call of ListMessages and its return
    reading,      \* the last call of ReadMessage and its return
    chores,       \* FamilyStore.chores: chore id -> chore
    lists,        \* FamilyStore.lists: list id -> list
    arrays,       \* the arrays the Items slices of the lists point into
    uuids,        \* the number of ids the family store has generated
    storeCall,    \* the last call of the family store that returns an error only
    gotLists,     \* the last call of GetLists and its return
    mmu,          \* MCPManager.mu: the read locks held and whether the write lock is
    threads,      \* where each concurrent caller of the manager is in its operation
    pcfg,         \* ScheduleProvider.cfg: the original configuration
    resolves,     \* the calls of the schedule provider that resolve a provider, in order
    stdin,        \* the lines written to the standard input of the orchestrator's MCP server
    stdout,       \* the responses the server has printed, in order
    stopped,      \* whether the loop of the server's main has ended
    checked       \* the last two calls of CheckContent, each with the filter it was made on

mcpVars == <<Servers, crashed>>

schedVars == <<schedule, location, now, chat>>

fbVars == <<clock, cooldownUntil, failures, fallback>>

safetyVars == <<filter, year, safety>>

\* The variables of the subsystems modelled after the first three.
memVars == <<memConfig, nanos, points, archives, search>>

bufferVars == <<buffer, mu, adding, added, issued>>

gatewayVars == <<webhooks, delivery, forwarded, beats, outbound>>

toolVars == <<toolCalls>>

metricsVars == <<registry, wrappedCalls, metricChats>>

mailVars == <<mailbox, sent, listing, reading>>

familyVars == <<chores, lists, arrays, uuids, storeCall, gotLists>>

lockVars == <<mmu, threads>>

configVars == <<pcfg, resolves>>

rpcVars == <<stdin, stdout, stopped>>

levelVars == <<checked>>

\* The variables of the subsystems modelled last.
lateVars == <<gatewayVars, toolVars, metricsVars, mailVars, familyVars, lockVars, configVars, rpcVars, levelVars>>

earlyVars == <<mcpVars, schedVars, fbVars, safetyVars, memVars, bufferVars>>

restVars == <<safetyVars, memVars, bufferVars, lateVars>>

vars == <<Servers, crashed, schedule, location, now, chat,
          clock, cooldownUntil, failures, fallback, filter, year, safety,
          memConfig, nanos, points, archives, search,
          buffer, mu, adding, added, issued,
          webhooks, delivery, forwarded, beats, outbound,
          toolCalls,
          registry, wrappedCalls, metricChats,
          mailbox, sent, listing, reading,
          chores, lists, arrays, uuids, storeCall, gotLists,
          mmu, threads,
          pcfg, resolves,
          stdin, stdout, stopped,
          checked>>

(***************************************************************************)
(* Generic helpers.                                                        *)
(***************************************************************************)
Range(s) == {s[i] : i \in 1..Len(s)}

\* All sequences over S of length at most n.
SeqsUpTo(S, n) == UNION {[1..k -> S] : k \in 0..n}

\* Go iterates a map in an unspecified order: every enumeration of the keys
\* without repetition is a possible iteration order.
Orders(S) == {o \in [1..Cardinality(S) -> S] : \A i, j \in 1..Cardinality(S) : o[i] = o[j] => i = j}

(***************************************************************************)
(* MCP client manager.                                                     *)
(***************************************************************************)
Nil == "nil"

\* Bound: length of the tool list a directly registered server advertises.
MaxTools == 2

ServerNames == {"fs", "fs__db"}
ToolNames == {"read", "db__read"}
Workspaces == {"w1", "w2"}

\* Allow/deny list pairs <<allow, deny>> that reach every branch of
\* isToolAllowed and isWorkspaceAllowed: no list, a deny-list alone, and an
\* allow-list together with a deny-list naming the same entry.
ToolListPairs == {<<<<>>, <<>>>>, <<<<>>, <<"read">>>>, <<<<"read">>, <<"read">>>>}
WorkspaceListPairs == {<<<<>>, <<>>>>, <<<<>>, <<"w1">>>>, <<<<"w1">>, <<"w1">>>>}

MCPServerConfig(name, url, tl, wl) ==
    [Name |-> name,
     URL |-> url,
     ToolAllowList |-> tl[1],
     ToolDenyList |-> tl[2],
     WorkspaceAllowList |-> wl[1],
     WorkspaceDenyList |-> wl[2]]

\* The MCPServerConfig values AddServer is called with.
Configs ==
    {MCPServerConfig(name, url, tl, wl) :
        name \in ServerNames, url \in {"", "http://mcp"},
        tl \in ToolListPairs, wl \in WorkspaceListPairs}

\* The servers the tests register directly: stdio servers (no URL).
DirectConfigs == {c \in Configs : c.URL = ""}

MCPToolDef(name) == [Name |-> name]

ToolLists == {[i \in DOMAIN s |-> MCPToolDef(s[i])] : s \in SeqsUpTo(ToolNames, MaxTools)}

NewServer(config) ==
    [Name |-> config.Name,
     URL |-> config.URL,
     Connected |-> FALSE,
     Tools |-> <<>>,
     Capabilities |-> Nil,
     WorkspaceAllowList |-> config.WorkspaceAllowList,
     WorkspaceDenyList |-> config.WorkspaceDenyList,
     ToolAllowList |-> config.ToolAllowList,
     ToolDenyList |-> config.ToolDenyList,
     cmd |-> Nil]

\* m.Servers[name] = server
Put(m, name, server) == [n \in DOMAIN m \cup {name} |-> IF n = name THEN server ELSE m[n]]

NewManager == <<>>

\* AddServer builds the record with Connected false, stores it and then sets
\* Connected to true.
AddServer(config) ==
    /\ ~crashed
    /\ Servers' = Put(Servers, config.Name, [NewServer(config) EXCEPT !.Connected = TRUE])
    /\ UNCHANGED crashed

RemoveServer(name) ==
    /\ ~crashed
    /\ Servers' = [n \in DOMAIN Servers \ {name} |-> Servers[n]]
    /\ UNCHANGED crashed

\* The tests register servers by assigning into the exported map, under a
\* name not yet in it and with any advertised tool list:
\* manager.Servers[name] = &MCPServer{...}.
SetServer(config, connected, tools) ==
    /\ ~crashed
    /\ config.Name \notin DOMAIN Servers
    /\ Servers' = Put(Servers, config.Name,
                      [NewServer(config) EXCEPT !.Connected = connected, !.Tools = tools])
    /\ UNCHANGED crashed

\* Mutant: the deny-list is consulted even when an allow-list is present.
isWorkspaceAllowed_DenyWins(s, workspace) ==
    /\ ~(\E i \in 1..Len(s.WorkspaceDenyList) : s.WorkspaceDenyList[i] = workspace)
    /\ (Len(s.WorkspaceAllowList) > 0 =>
           \E i \in 1..Len(s.WorkspaceAllowList) : s.WorkspaceAllowList[i] = workspace)

isWorkspaceAllowed(s, workspace) ==
    IF Len(s.WorkspaceAllowList) > 0
    THEN \E i \in 1..Len(s.WorkspaceAllowList) : s.WorkspaceAllowList[i] = workspace
    ELSE ~(\E i \in 1..Len(s.WorkspaceDenyList) : s.WorkspaceDenyList[i] = workspace)

\* Mutant: the deny-list is consulted even when an allow-list is present.
isToolAllowed_DenyWins(s, toolName) ==
    /\ ~(\E i \in 1..Len(s.ToolDenyList) : s.ToolDenyList[i] = toolName)
    /\ (Len(s.ToolAllowList) > 0 =>
           \E i \in 1..Len(s.ToolAllowList) : s.ToolAllowList[i] = toolName)

isToolAllowed(s, toolName) ==
    IF Len(s.ToolAllowList) > 0
    THEN \E i \in 1..Len(s.ToolAllowList) : s.ToolAllowList[i] = toolName
    ELSE ~(\E i \in 1..Len(s.ToolDenyList) : s.ToolDenyList[i] = toolName)

prefixedName(server, tool) == server.Name \o "__" \o tool.Name

\* The inner loop of GetAllTools / GetToolsForWorkspace over server.Tools.
RECURSIVE appendTools(_, _)
appendTools(server, tools) ==
    IF tools = <<>> THEN <<>>
    ELSE (IF isToolAllowed(server, Head(tools).Name)
          THEN <<MCPToolDef(prefixedName(server, Head(tools)))>>
          ELSE <<>>) \o appendTools(server, Tail(tools))

\* Mutant: the Connected check is missing.
RECURSIVE GetAllTools_NoConnectedCheck(_)
GetAllTools_NoConnectedCheck(order) ==
    IF order = <<>> THEN <<>>
    ELSE appendTools(Servers[Head(order)], Servers[Head(order)].Tools)
         \o GetAllTools_NoConnectedCheck(Tail(order))

\* GetAllTools, iterating the server map in the given order.
RECURSIVE GetAllTools(_)
GetAllTools(order) ==
    IF order = <<>> THEN <<>>
    ELSE (IF ~Servers[Head(order)].Connected
          THEN <<>>
          ELSE appendTools(Servers[Head(order)], Servers[Head(order)].Tools))
         \o GetAllTools(Tail(order))

RECURSIVE GetToolsForWorkspace(_, _)
GetToolsForWorkspace(order, workspace) ==
    IF order = <<>> THEN <<>>
    ELSE (IF ~Servers[Head(order)].Connected
          THEN <<>>
          ELSE IF ~isWorkspaceAllowed(Servers[Head(order)], workspace)
          THEN <<>>
          ELSE appendTools(Servers[Head(order)], Servers[Head(order)].Tools))
         \o GetToolsForWorkspace(Tail(order), workspace)

\* connectStdio builds the exec.Cmd (never started: cmd.Process stays nil),
\* marks the server connected, marshals an initialize request that is then
\* discarded, and installs a fixed tool list.  No response is read and
\* Capabilities is not assigned.
connectStdio(server) ==
    [server EXCEPT !.cmd = "cmd", !.Connected = TRUE,
                   !.Tools = <<MCPToolDef("example_tool")>>]

connectHTTP(server) ==
    [server EXCEPT !.Connected = TRUE, !.Tools = <<MCPToolDef("http_example")>>]

ConnectServer(name) ==
    /\ ~crashed
    /\ IF name \notin DOMAIN Servers
       THEN UNCHANGED Servers
       ELSE IF Servers[name].URL # ""
       THEN Servers' = [Servers EXCEPT ![name] = connectHTTP(@)]
       ELSE Servers' = [Servers EXCEPT ![name] = connectStdio(@)]
    /\ UNCHANGED crashed

\* DisconnectServer calls server.cmd.Process.Kill() whenever cmd is set; the
\* command was never started, so Process is nil and the call panics before
\* Connected is cleared.
DisconnectServer(name) ==
    /\ ~crashed
    /\ IF name \notin DOMAIN Servers
       THEN UNCHANGED <<Servers, crashed>>
       ELSE IF Servers[name].cmd # Nil
       THEN /\ crashed' = TRUE
            /\ UNCHANGED Servers
       ELSE /\ Servers' = [Servers EXCEPT ![name].Connected = FALSE]
            /\ UNCHANGED crashed

McpInit ==
    /\ Servers = NewManager
    /\ crashed = FALSE

\* The manager's own operations.
McpApi ==
    \/ \E config \in Configs : AddServer(config)
    \/ \E name \in ServerNames : RemoveServer(name)
    \/ \E name \in ServerNames : ConnectServer(name)
    \/ \E name \in ServerNames : DisconnectServer(name)

McpNext ==
    \/ McpApi
    \/ \E config \in DirectConfigs, tools \in ToolLists :
          SetServer(config, TRUE, tools)

(***************************************************************************)
(* Schedule provider.                                                      *)
(***************************************************************************)
\* Bounds: rules in a schedule, entries in a rule's day list.
MaxRules == 2
MaxDays == 2

\* rule.Hours is a pointer: isNil marks the nil pointer.
ScheduleHours(start, end) == [isNil |-> FALSE, Start |-> start, End |-> end]
NilHours == [isNil |-> TRUE, Start |-> "", End |-> ""]

ScheduleRule(days, hours, provider, model) ==
    [Days |-> days, Hours |-> hours, Provider |-> provider, Model |-> model]

\* The nil *ScheduleRule matchRule returns when nothing matches.
NilRule == ScheduleRule(<<>>, NilHours, "", "")

\* The provider CreateProvider builds for a provider type and model name.
LLMProvider(providerType, modelName) ==
    [isNil |-> FALSE, Provider |-> providerType, ModelName |-> modelName]
NilProvider == [isNil |-> TRUE, Provider |-> "", ModelName |-> ""]

UpperCase == "ABCDEFGHIJKLMNOPQRSTUVWXYZ"
LowerCase == "abcdefghijklmnopqrstuvwxyz"
Digits == "0123456789"

\* 0 when c does not occur in alphabet, else its 1-based position.
IndexOf(c, alphabet) ==
    IF \E i \in 1..Len(alphabet) : SubSeq(alphabet, i, i) = c
    THEN CHOOSE i \in 1..Len(alphabet) : SubSeq(alphabet, i, i) = c
    ELSE 0

\* strings.ToLower on ASCII text, character by character.
RECURSIVE lowerChars(_)
lowerChars(str) ==
    IF str = "" THEN ""
    ELSE LET c == Head(str)
             k == IndexOf(c, UpperCase)
         IN  (IF k = 0 THEN c ELSE SubSeq(LowerCase, k, k)) \o lowerChars(Tail(str))

\* strings.HasPrefix
HasPrefix(str, prefix) ==
    Len(str) >= Len(prefix) /\ SubSeq(str, 1, Len(prefix)) = prefix

isDigit(str, i) == i <= Len(str) /\ IndexOf(SubSeq(str, i, i), Digits) # 0

digit(str, i) == IndexOf(SubSeq(str, i, i), Digits) - 1

\* The value time.Parse returns with an error.
BadClock == [ok |-> FALSE, hour |-> 0, minute |-> 0]

\* The number of n (one or two) digits of str that starts at position i.
number(str, i, n) ==
    IF n = 2 THEN 10 * digit(str, i) + digit(str, i + 1) ELSE digit(str, i)

\* The rest of time.Parse("15:04", value) once the hour field of hlen digits
\* is read: the hour below 24, a colon, a minute of exactly two digits below
\* 60, and nothing after it.
parseFields(value, hlen, hour, minute) ==
    IF hour >= 24 THEN BadClock
    ELSE IF ~(Len(value) > hlen /\ SubSeq(value, hlen + 1, hlen + 1) = ":") THEN BadClock
    ELSE IF ~(isDigit(value, hlen + 2) /\ isDigit(value, hlen + 3)) THEN BadClock
    ELSE IF minute >= 60 THEN BadClock
    ELSE IF Len(value) > hlen + 3 THEN BadClock
    ELSE [ok |-> TRUE, hour |-> hour, minute |-> minute]

parseHour(value, hlen) ==
    parseFields(value, hlen, number(value, 1, hlen), number(value, hlen + 2, 2))

\* time.Parse("15:04", value): the hour field is one or two digits.
parseClock(value) ==
    IF ~isDigit(value, 1) THEN BadClock
    ELSE parseHour(value, IF isDigit(value, 2) THEN 2 ELSE 1)

\* time.Weekday.String(), Sunday = 0.
WeekdayNames ==
    <<"Sunday", "Monday", "Tuesday", "Wednesday", "Thursday", "Friday", "Saturday">>

\* t.In(location): the same instant on the wall clock of the location.
In(t, loc) ==
    LET week == 7 * 24 * 60
        m == ((t.weekday * 24 + t.hour) * 60 + t.minute + loc) % week
    IN  [weekday |-> m \div (24 * 60), hour |-> (m % (24 * 60)) \div 60, minute |-> m % 60]

\* The strings of the inputs, and the two functions above tabulated over them
\* once (the tables are computed from the definitions above).
DayStrings == {"mon", "Sat", "WEEKDAY", "weekend", "monday", "weekday"}
HourStrings == {"06:00", "17:00", "22:00", "9am"}
ClockStrings == HourStrings \cup {"09:00"}
WeekdayPrefixes == {SubSeq(WeekdayNames[i], 1, 3) : i \in 1..7}

Tabulate(f) == CHOOSE g \in {f} : TRUE

LowerTable == Tabulate([str \in DayStrings \cup WeekdayPrefixes |-> lowerChars(str)])
ClockTable == Tabulate([str \in ClockStrings |-> parseClock(str)])

ToLower(str) == LowerTable[str]
ParseClock(value) == ClockTable[value]

\* Mutant: the weekday alias also matches Saturday.
daysMatch_WeekdayIncludesSat(days, weekday) ==
    Len(days) > 0 =>
        \E i \in 1..Len(days) :
            LET d == ToLower(days[i])
            IN  \/ d = weekday
                \/ d = "weekday" /\ weekday # "sun"
                \/ d = "weekend" /\ (weekday = "sat" \/ weekday = "sun")

\* The day check of matchRule's loop body: TRUE when the rule is not skipped.
daysMatch(days, weekday) ==
    Len(days) > 0 =>
        \E i \in 1..Len(days) :
            LET d == ToLower(days[i])
            IN  \/ d = weekday
                \/ d = "weekday" /\ weekday # "sat" /\ weekday # "sun"
                \/ d = "weekend" /\ (weekday = "sat" \/ weekday = "sun")

\* Mutant: the overnight branch skips with the same-day condition.
inSpan_OvernightInverted(startMins, endMins, nowMins) ==
    ~(nowMins < startMins \/ nowMins >= endMins)

\* The comparison of the hour check: the same-day span when start <= end,
\* else the overnight span.  TRUE when the rule is not skipped.
inSpan(startMins, endMins, nowMins) ==
    IF startMins <= endMins
    THEN ~(nowMins < startMins \/ nowMins >= endMins)
    ELSE ~(nowMins < startMins /\ nowMins >= endMins)

\* The hour check on the parsed bounds: a bound that does not parse skips
\* the rule.
parsedHoursMatch(start, end, nowMins) ==
    IF ~start.ok THEN FALSE
    ELSE IF ~end.ok THEN FALSE
    ELSE inSpan(start.hour * 60 + start.minute, end.hour * 60 + end.minute, nowMins)

\* The hour check of matchRule's loop body: TRUE when the rule is not skipped.
hoursMatch(hours, t) ==
    IF hours.isNil THEN TRUE
    ELSE parsedHoursMatch(ParseClock(hours.Start), ParseClock(hours.End),
                          t.hour * 60 + t.minute)

\* The loop of matchRule over the rules, t already in the location.
RECURSIVE matchLoop(_, _)
matchLoop(rules, t) ==
    IF rules = <<>> THEN [ok |-> FALSE, rule |-> NilRule]
    ELSE IF ~daysMatch(Head(rules).Days, ToLower(SubSeq(WeekdayNames[t.weekday + 1], 1, 3)))
    THEN matchLoop(Tail(rules), t)
    ELSE IF ~hoursMatch(Head(rules).Hours, t)
    THEN matchLoop(Tail(rules), t)
    ELSE [ok |-> TRUE, rule |-> Head(rules)]

\* Mutant: a later matching rule replaces an earlier one.
RECURSIVE matchRule_LastWins(_, _)
matchRule_LastWins(rules, t) ==
    IF rules = <<>> THEN [ok |-> FALSE, rule |-> NilRule]
    ELSE LET rest == matchRule_LastWins(Tail(rules), t)
         IN  IF rest.ok THEN rest ELSE matchLoop(<<Head(rules)>>, In(t, location))

matchRule(rules, t) == matchLoop(rules, In(t, location))

\* The first lines of resolveProvider: the provider type and model of the
\* matching rule, else of the default.
selectRule(t) ==
    LET m == matchRule(schedule.Rules, t)
    IN  IF m.ok
        THEN [providerType |-> m.rule.Provider, model |-> m.rule.Model]
        ELSE [providerType |-> schedule.Default.Provider, model |-> schedule.Default.Model]

RecursiveErr == "recursive schedule provider not allowed"
CreateErr == "create provider failed"

\* Mutant: the recursion check is missing.
resolveProvider_NoRecursionCheck(t, createFails, resolvedModelID) ==
    LET sel == selectRule(t)
        targetModelName == IF sel.model = "" THEN sel.providerType ELSE sel.model
    IN  IF createFails
        THEN [provider |-> NilProvider, model |-> "", err |-> CreateErr]
        ELSE [provider |-> LLMProvider(sel.providerType, targetModelName),
              model |-> resolvedModelID, err |-> Nil]

\* resolveProvider.  CreateProvider is called on the cloned config; whether
\* it fails and the model id it resolves are inputs of the call.
resolveProvider(t, createFails, resolvedModelID) ==
    LET sel == selectRule(t)
        targetModelName == IF sel.model = "" THEN sel.providerType ELSE sel.model
    IN  IF HasPrefix(sel.providerType, "schedule")
        THEN [provider |-> NilProvider, model |-> "", err |-> RecursiveErr]
        ELSE IF createFails
        THEN [provider |-> NilProvider, model |-> "", err |-> CreateErr]
        ELSE [provider |-> LLMProvider(sel.providerType, targetModelName),
              model |-> resolvedModelID, err |-> Nil]

DefaultModel == "provider-default"

\* ScheduleProvider.Chat: dispatched is the provider whose Chat was called
\* (Nil when none was), model the model it was called with.
Chat(model, createFails, resolvedModelID) ==
    LET r == resolveProvider(now, createFails, resolvedModelID)
        targetModel == IF r.model # "" THEN r.model
                       ELSE IF model = "" THEN DefaultModel ELSE model
    IN  /\ chat' = IF r.err # Nil
                   THEN [called |-> TRUE, err |-> r.err, dispatched |-> NilProvider, model |-> ""]
                   ELSE [called |-> TRUE, err |-> Nil, dispatched |-> r.provider,
                         model |-> targetModel]
        /\ UNCHANGED <<schedule, location, now>>

NoChat == [called |-> FALSE, err |-> Nil, dispatched |-> NilProvider, model |-> ""]

\* Inputs: the day-list entries rules are written with and the sampled instants.
RuleDays == DayStrings \ {"weekday"}
SampleWeekdays == {0, 1, 5, 6}
SampleClock == {<<5, 0>>, <<6, 0>>, <<10, 0>>, <<17, 0>>, <<22, 0>>, <<23, 30>>}
Locations == {0, -300}
Instant(d, c) == [weekday |-> d, hour |-> c[1], minute |-> c[2]]
Instants == {Instant(d, c) : d \in SampleWeekdays, c \in SampleClock}
\* The instants the ordered schedules are resolved at: a Monday and a
\* Saturday, mid-morning and late evening.
OrderedInstants == {Instant(d, c) : d \in {1, 6}, c \in {<<10, 0>>, <<23, 30>>}}

AllHours == {NilHours} \cup {ScheduleHours(a, b) : a, b \in HourStrings}

\* Schedules of one rule, over every bounded day list and every hour pair.
OneRuleSchedules ==
    {[Rules |-> <<ScheduleRule(days, hours, "p1", "m1")>>,
      Default |-> ScheduleRule(<<>>, NilHours, "p0", "m0")] :
        days \in SeqsUpTo(RuleDays, MaxDays), hours \in AllHours}

\* Rules of the ordered schedules: with and without a day list and hours,
\* naming a provider with a model, a provider alone, or the schedule
\* provider itself.
OrderedRules ==
    {ScheduleRule(days, hours, pm[1], pm[2]) :
        days \in {<<>>, <<"weekday">>},
        hours \in {NilHours, ScheduleHours("09:00", "17:00"), ScheduleHours("22:00", "06:00")},
        pm \in {<<"p1", "m1">>, <<"p2", "">>, <<"schedule", "m1">>}}

OrderedSchedules ==
    {[Rules |-> rules, Default |-> ScheduleRule(<<>>, NilHours, dpm[1], dpm[2])] :
        rules \in SeqsUpTo(OrderedRules, MaxRules),
        dpm \in {<<"p0", "m0">>, <<"schedule", "">>}}

SchedIdle ==
    /\ schedule = [Rules |-> <<>>, Default |-> ScheduleRule(<<>>, NilHours, "p0", "m0")]
    /\ location = 0
    /\ now = [weekday |-> 0, hour |-> 0, minute |-> 0]
    /\ chat = NoChat

ChatModels == {"", "mreq"}
ResolvedModelIDs == {"", "resolved"}

SchedNext ==
    \E model \in ChatModels, createFails \in BOOLEAN, id \in ResolvedModelIDs :
        Chat(model, createFails, id)

(***************************************************************************)
(* Provider fallback chain and cooldown tracker (pkg/providers/fallback.go *)
(* and cooldown.go are not among the sources; modelled from the            *)
(* specification, section 4.E).                                            *)
(***************************************************************************)
\* Bounds: entries of the chain, the last clock value, the cap of the
\* backoff, and the cap of the consecutive-failure counter.
ChainLen == 2
MaxTime == 4
MaxBackoff == 2
MaxFailures == 2

Entries == 1..ChainLen

\* What an entry's provider answers when Chat is dispatched to it.
Outcomes == {"ok", "retriable", "fatal"}

RECURSIVE pow2(_)
pow2(n) == IF n = 0 THEN 1 ELSE 2 * pow2(n - 1)

\* Exponential backoff, capped, plus jitter.
backoff(consecutive, jitter) ==
    (IF pow2(consecutive - 1) > MaxBackoff THEN MaxBackoff ELSE pow2(consecutive - 1)) + jitter

inCooldown(until, entry) == clock < until[entry]

\* Mutant: no entry is ever reported as cooling down.
skipEntry_Never(until, entry) == FALSE

\* Step 1 of the chain's loop: an entry in cooldown is skipped.
skipEntry(until, entry) == inCooldown(until, entry)

\* The chain's loop from entry i on.  acc carries the tracker's maps, the
\* entries skipped and dispatched so far, and the result.
RECURSIVE chainLoop(_, _, _, _)
chainLoop(i, answers, jitter, acc) ==
    IF i > ChainLen THEN [acc EXCEPT !.result = "exhausted"]
    ELSE IF skipEntry(acc.until, i)
    THEN chainLoop(i + 1, answers, jitter, [acc EXCEPT !.skipped = @ \cup {i}])
    ELSE IF answers[i] = "ok"
    THEN [acc EXCEPT !.dispatched = @ \cup {i}, !.until[i] = 0, !.fails[i] = 0,
                     !.result = "ok"]
    ELSE IF answers[i] = "fatal"
    THEN [acc EXCEPT !.dispatched = @ \cup {i}, !.result = "failed"]
    ELSE LET n == IF acc.fails[i] < MaxFailures THEN acc.fails[i] + 1 ELSE MaxFailures
         IN  chainLoop(i + 1, answers, jitter,
                       [acc EXCEPT !.dispatched = @ \cup {i}, !.fails[i] = n,
                                   !.until[i] = clock + backoff(n, jitter)])

\* FallbackChain.Chat.  cooling records, for the claims, the entries that
\* were in cooldown when the call began.
FallbackChat(answers, jitter) ==
    LET out == chainLoop(1, answers, jitter,
                         [until |-> cooldownUntil, fails |-> failures,
                          skipped |-> {}, dispatched |-> {}, result |-> ""])
    IN  /\ cooldownUntil' = out.until
        /\ failures' = out.fails
        /\ fallback' = [called |-> TRUE, result |-> out.result, skipped |-> out.skipped,
                        dispatched |-> out.dispatched,
                        cooling |-> {e \in Entries : clock < cooldownUntil[e]}]
        /\ UNCHANGED clock

\* Time passes.
Tick ==
    /\ clock < MaxTime
    /\ clock' = clock + 1
    /\ UNCHANGED <<cooldownUntil, failures, fallback>>

FbInit ==
    /\ clock = 0
    /\ cooldownUntil = [e \in Entries |-> 0]
    /\ failures = [e \in Entries |-> 0]
    /\ fallback = [called |-> FALSE, result |-> "", skipped |-> {}, dispatched |-> {},
                   cooling |-> {}]

FbNext ==
    \/ \E answers \in [Entries -> Outcomes], jitter \in 0..1 : FallbackChat(answers, jitter)
    \/ Tick

(***************************************************************************)
(* Safety filter (pkg/safety).                                             *)
(***************************************************************************)
LevelOff == "off"
LevelLow == "low"
LevelMedium == "medium"
LevelHigh == "high"

adultKeywords ==
    <<"violence", "weapons", "drugs", "alcohol", "tobacco", "gambling", "hate",
      "discrimination", "self-harm", "explicit", "pornography", "sexual">>

mediumBlockKeywords ==
    <<"suicide", "murder", "kill", "attack", "bomb", "hack", "steal", "fraud", "scam">>

teenOnlyTopics == <<"dating", "romance", "sex", "politics", "religion">>

sensitiveTopics ==
    <<"dating", "romance", "sex", "politics", "religion", "death", "grief">>

ambiguousPhrases ==
    <<"in my opinion", "some people believe", "it depends", "you should ask",
      "talk to your parents", "consult an adult">>

\* NewFilter: an empty level means off.
NewFilter(level, birthYear) ==
    [level |-> IF level = "" THEN LevelOff ELSE level, birthYear |-> birthYear]

\* strings.Contains for a non-empty substr.
Contains(s, substr) ==
    \E i \in 1..(Len(s) - Len(substr) + 1) : SubSeq(s, i, i + Len(substr) - 1) = substr

\* The loops "for _, kw := range list { if strings.Contains(lower, kw) ... }".
containsAny(lower, list) == \E k \in 1..Len(list) : Contains(lower, list[k])

\* The texts the filter is asked about, and strings.ToLower tabulated over them.
Contents ==
    {"Violence and weapons", "how to cook pasta", "how to make a BOMB", "Dating advice",
     "anything goes", "new skills", "Grief and loss", "It depends", "Sex ed"}

ContentLowerTable == Tabulate([content \in Contents |-> lowerChars(content)])

contentToLower(content) == ContentLowerTable[content]

\* Mutant: a teen is treated as a user of 13 to 18 years.
isTeenUser_Through18 ==
    IF filter.birthYear = 0 THEN FALSE
    ELSE year - filter.birthYear >= 13 /\ year - filter.birthYear <= 18

isYoungUser ==
    IF filter.birthYear = 0 THEN FALSE ELSE year - filter.birthYear < 13

isTeenUser ==
    IF filter.birthYear = 0 THEN FALSE
    ELSE year - filter.birthYear >= 13 /\ year - filter.birthYear < 18

shouldBlock == filter.level # LevelOff

NotBlocked == [blocked |-> FALSE, reason |-> ""]

\* Mutant: the topics for young users are not looked at.
checkLower_NoTeenTopics(contentLower) ==
    IF filter.level = LevelLow /\ containsAny(contentLower, adultKeywords)
    THEN [blocked |-> TRUE, reason |-> "content blocked by safety filter (low)"]
    ELSE IF /\ filter.level = LevelMedium \/ filter.level = LevelHigh
            /\ \/ containsAny(contentLower, adultKeywords)
               \/ containsAny(contentLower, mediumBlockKeywords)
    THEN [blocked |-> TRUE, reason |-> "content blocked by safety filter (medium/high)"]
    ELSE NotBlocked

\* Mutant: at level high the adult keywords are not looked at.
checkLower_HighSkipsAdult(contentLower) ==
    IF filter.level = LevelLow /\ containsAny(contentLower, adultKeywords)
    THEN [blocked |-> TRUE, reason |-> "content blocked by safety filter (low)"]
    ELSE IF \/ filter.level = LevelMedium /\ containsAny(contentLower, adultKeywords)
            \/ /\ filter.level = LevelMedium \/ filter.level = LevelHigh
               /\ containsAny(contentLower, mediumBlockKeywords)
    THEN [blocked |-> TRUE, reason |-> "content blocked by safety filter (medium/high)"]
    ELSE IF /\ filter.level = LevelHigh
            /\ isYoungUser
            /\ containsAny(contentLower, teenOnlyTopics)
    THEN [blocked |-> TRUE,
          reason |-> "content requires parent approval (high safety for young user)"]
    ELSE NotBlocked

\* The keyword checks of CheckContent on the lower-cased content.
checkLower(contentLower) ==
    IF filter.level = LevelLow /\ containsAny(contentLower, adultKeywords)
    THEN [blocked |-> TRUE, reason |-> "content blocked by safety filter (low)"]
    ELSE IF /\ filter.level = LevelMedium \/ filter.level = LevelHigh
            /\ \/ containsAny(contentLower, adultKeywords)
               \/ containsAny(contentLower, mediumBlockKeywords)
    THEN [blocked |-> TRUE, reason |-> "content blocked by safety filter (medium/high)"]
    ELSE IF /\ filter.level = LevelHigh
            /\ isYoungUser
            /\ containsAny(contentLower, teenOnlyTopics)
    THEN [blocked |-> TRUE,
          reason |-> "content requires parent approval (high safety for young user)"]
    ELSE NotBlocked

\* Filter.CheckContent
checkContent(content) ==
    IF ~shouldBlock THEN NotBlocked ELSE checkLower(contentToLower(content))

needsLLMCheck(response) == containsAny(contentToLower(response), ambiguousPhrases)

getBlockedMessage(reason) ==
    IF isYoungUser
    THEN "I can't share that information with you. Ask a parent or guardian if you'd like to know more about this topic."
    ELSE "This content has been filtered for safety. Please try a different topic."

\* CheckResult; the Rewrite and Rewritten fields are never assigned.
CheckResult(original, safe, blocked, needsApproval, reason, blockedMessage) ==
    [Original |-> original, Safe |-> safe, Blocked |-> blocked,
     NeedsApproval |-> needsApproval, Reason |-> reason, BlockedMessage |-> blockedMessage]

\* Mutant: a sensitive topic for a young user marks the response unsafe.
afterContent_ApprovalUnsafe(response, cc) ==
    IF cc.blocked
    THEN CheckResult(response, FALSE, TRUE, FALSE, cc.reason, getBlockedMessage(cc.reason))
    ELSE IF /\ filter.level = LevelHigh
            /\ isYoungUser
            /\ containsAny(contentToLower(response), sensitiveTopics)
    THEN CheckResult(response, FALSE, FALSE, TRUE,
                     "Sensitive topic for young user - parent review recommended", "")
    ELSE IF /\ filter.level = LevelMedium \/ filter.level = LevelHigh
            /\ needsLLMCheck(response)
    THEN CheckResult(response, TRUE, FALSE, TRUE,
                     "Content may need review - using LLM safety check recommended", "")
    ELSE CheckResult(response, TRUE, FALSE, FALSE, "", "")

\* CheckResponse after its call of CheckContent has returned cc.
afterContent(response, cc) ==
    IF cc.blocked
    THEN CheckResult(response, FALSE, TRUE, FALSE, cc.reason, getBlockedMessage(cc.reason))
    ELSE IF /\ filter.level = LevelHigh
            /\ isYoungUser
            /\ containsAny(contentToLower(response), sensitiveTopics)
    THEN CheckResult(response, TRUE, FALSE, TRUE,
                     "Sensitive topic for young user - parent review recommended", "")
    ELSE IF /\ filter.level = LevelMedium \/ filter.level = LevelHigh
            /\ needsLLMCheck(response)
    THEN CheckResult(response, TRUE, FALSE, TRUE,
                     "Content may need review - using LLM safety check recommended", "")
    ELSE CheckResult(response, TRUE, FALSE, FALSE, "", "")

\* Filter.CheckResponse
checkResponse(response) ==
    IF filter.level = LevelOff
    THEN CheckResult(response, TRUE, FALSE, FALSE, "", "")
    ELSE afterContent(response, checkContent(response))

\* fmt.Sprintf("%d", n)
RECURSIVE natToString(_)
natToString(n) ==
    IF n < 10 THEN SubSeq(Digits, n + 1, n + 1)
    ELSE natToString(n \div 10) \o SubSeq(Digits, (n % 10) + 1, (n % 10) + 1)

intToString(n) == IF n < 0 THEN "-" \o natToString(-n) ELSE natToString(n)

\* strings.Join(parts, "\n")
RECURSIVE Join(_)
Join(parts) ==
    IF parts = <<>> THEN ""
    ELSE IF Len(parts) = 1 THEN parts[1]
    ELSE parts[1] \o "\n" \o Join(Tail(parts))

\* The parts GetSystemPrompt appends for the birth year.
birthYearParts ==
    IF filter.birthYear > 0
    THEN <<"The user was born in " \o intToString(filter.birthYear) \o " (approximately "
             \o intToString(year - filter.birthYear) \o " years old).">>
         \o (IF isYoungUser
             THEN <<"IMPORTANT: This is a young child. Use simple vocabulary, short sentences, and age-appropriate examples.">>
             ELSE IF isTeenUser
             THEN <<"IMPORTANT: This is a teenager. Be helpful but mindful of age-appropriate content.">>
             ELSE <<>>)
    ELSE <<>>

\* Mutant: the safety level is left out of the prompt.
levelParts_Never == <<>>

\* The part GetSystemPrompt appends for the level.
levelParts ==
    IF filter.level # LevelOff
    THEN <<"Safety filter level: " \o filter.level>>
    ELSE <<>>

promptOf(parts) ==
    IF Len(parts) > 0 THEN "## Safety Context\n" \o Join(parts) ELSE ""

\* Filter.GetSystemPrompt
getSystemPrompt == promptOf(birthYearParts \o levelParts)

\* What the last call on the filter returned.
SafetyCall(op, content, blocked, reason, result, prompt, young, teen) ==
    [op |-> op, content |-> content, blocked |-> blocked, reason |-> reason,
     result |-> result, prompt |-> prompt, young |-> young, teen |-> teen]

NoResult == CheckResult("", FALSE, FALSE, FALSE, "", "")

NoSafetyCall == SafetyCall("", "", FALSE, "", NoResult, "", FALSE, FALSE)

recordContent(content, cc) ==
    safety' = SafetyCall("CheckContent", content, cc.blocked, cc.reason, NoResult, "",
                         FALSE, FALSE)

CheckContent(content) ==
    /\ recordContent(content, checkContent(content))
    /\ UNCHANGED <<filter, year>>

CheckResponse(response) ==
    /\ safety' = SafetyCall("CheckResponse", response, FALSE, "", checkResponse(response),
                            "", FALSE, FALSE)
    /\ UNCHANGED <<filter, year>>

GetSystemPrompt ==
    /\ safety' = SafetyCall("GetSystemPrompt", "", FALSE, "", NoResult, getSystemPrompt,
                            FALSE, FALSE)
    /\ UNCHANGED <<filter, year>>

\* isYoungUser and isTeenUser called on the same filter, as the tests do.
AgeBand ==
    /\ safety' = SafetyCall("AgeBand", "", FALSE, "", NoResult, "", isYoungUser, isTeenUser)
    /\ UNCHANGED <<filter, year>>

\* Inputs: the levels of the configuration (a level outside the four named
\* ones is stored as it is), birth years around the band limits, 0 for no
\* birth year, a negative one and one in the future.
Levels == {"", LevelOff, LevelLow, LevelMedium, LevelHigh, "strict"}
BirthYears == {-1, 0, 1990, 2008, 2009, 2013, 2014, 2018, 2030}
Years == {2026, 2027}

SafetyIdle ==
    /\ filter = NewFilter(LevelOff, 0)
    /\ year = 2026
    /\ safety = NoSafetyCall

SafetyInit ==
    /\ filter \in {NewFilter(level, birthYear) : level \in Levels, birthYear \in BirthYears}
    /\ year \in Years
    /\ safety = NoSafetyCall

SafetyNext ==
    \/ \E content \in Contents : CheckContent(content)
    \/ \E response \in Contents : CheckResponse(response)
    \/ GetSystemPrompt
    \/ AgeBand

(***************************************************************************)
(* Memory engine (pkg/memory Manager over the Qdrant client).             *)
(***************************************************************************)
\* time.Second, in nanoseconds.
Second == 1000000000

\* Bounds: the whole seconds the clock runs for, the number of ArchiveSession
\* calls, and the external call of an ArchiveSession that may fail, counted
\* from its first.
MaxSeconds == 1
MaxArchives == 2
MaxFailAt == 4

DefaultChunkSize == 4096

Message(role, content) == [Role |-> role, Content |-> content]

\* The loop of ArchiveSession over the messages: system messages are left
\* out, every other one becomes a line "role: content\n".
RECURSIVE archiveText(_)
archiveText(messages) ==
    IF messages = <<>> THEN ""
    ELSE IF Head(messages).Role = "system" THEN archiveText(Tail(messages))
    ELSE Head(messages).Role \o ": " \o Head(messages).Content \o "\n"
         \o archiveText(Tail(messages))

\* chunkSize := m.config.Embedding.ChunkSize; if chunkSize <= 0 { chunkSize = 4096 }
chunkSizeOf(configured) == IF configured <= 0 THEN DefaultChunkSize ELSE configured

minInt(a, b) == IF a < b THEN a ELSE b

\* Mutant: the window advances by the whole chunk size (no overlap).
RECURSIVE chunkLoop_NoOverlap(_, _, _, _)
chunkLoop_NoOverlap(i, n, chunkSize, overlap) ==
    IF ~(i < n) THEN <<>>
    ELSE <<[from |-> i, to |-> minInt(i + chunkSize, n)]>>
         \o (IF minInt(i + chunkSize, n) = n THEN <<>>
             ELSE chunkLoop_NoOverlap(i + chunkSize, n, chunkSize, overlap))

\* The sliding-window loop over the n runes: the chunks runes[from:to].
RECURSIVE chunkLoop(_, _, _, _)
chunkLoop(i, n, chunkSize, overlap) ==
    IF ~(i < n) THEN <<>>
    ELSE <<[from |-> i, to |-> minInt(i + chunkSize, n)]>>
         \o (IF minInt(i + chunkSize, n) = n THEN <<>>
             ELSE chunkLoop(i + (chunkSize - overlap), n, chunkSize, overlap))

\* The rune ranges of the chunks of a text of n runes.
chunkBounds(n, chunkSize) ==
    IF n <= chunkSize THEN <<[from |-> 0, to |-> n]>>
    ELSE chunkLoop(0, n, chunkSize, chunkSize \div 10)

cutChunks(text, bounds) ==
    [k \in 1..Len(bounds) |-> SubSeq(text, bounds[k].from + 1, bounds[k].to)]

\* Step 2 of ArchiveSession: the chunks of the text.
chunksOf(text, chunkSize) == cutChunks(text, chunkBounds(Len(text), chunkSize))

\* The embedder is a function of the text it is given.
Embed(text) == [embeddingOf |-> text]

\* Mutant: the chunk index is counted from 1.
Payload_IndexFromOne(workspaceID, sessionID, content, timestamp, index, total) ==
    [workspace_id |-> workspaceID, session_id |-> sessionID, content |-> content,
     timestamp |-> timestamp \div Second, chunk_index |-> index + 1, total_chunks |-> total]

\* The payload of a point.
Payload(workspaceID, sessionID, content, timestamp, index, total) ==
    [workspace_id |-> workspaceID, session_id |-> sessionID, content |-> content,
     timestamp |-> timestamp \div Second, chunk_index |-> index, total_chunks |-> total]

\* fmt.Sprintf("%s_%s_%d_%d", workspaceID, sessionID, timestamp, i)
rawID(workspaceID, sessionID, timestamp, i) ==
    workspaceID \o "_" \o sessionID \o "_" \o intToString(timestamp) \o "_" \o intToString(i)

\* uuid.NewMD5(uuid.NameSpaceURL, raw).String(): a function of the raw id.
pointID(raw) == "uuid3:" \o raw

VectorRecord(id, vector, payload) == [ID |-> id, Vector |-> vector, Payload |-> payload]

\* The record ArchiveSession stores for the chunk with index i (from 0).
chunkRecord(workspaceID, sessionID, chunks, timestamp, i) ==
    VectorRecord(pointID(rawID(workspaceID, sessionID, timestamp, i)),
                 Embed(chunks[i + 1]),
                 Payload(workspaceID, sessionID, chunks[i + 1], timestamp, i, Len(chunks)))

EmbedErr == "failed to generate embedding"
EnsureErr == "failed to ensure collection"
StoreErr == "failed to store chunk in vector db"

\* A call of the embedder or of the vector database, for the chunk with the
\* given index.
ExternalCall(op, index) == [op |-> op, index |-> index]

\* "Store remaining chunks": the loop from index i on.  The external calls
\* of one ArchiveSession are counted from 1 (Embed of chunk 0, then
\* EnsureCollection, Store of chunk 0, then Embed and Store of each further
\* chunk); failAt is the call that returns an error, 0 for none.
\* acc.calls are the external calls made so far, in order.
RECURSIVE storeRemaining(_, _, _, _, _, _, _)
storeRemaining(i, workspaceID, sessionID, chunks, timestamp, failAt, acc) ==
    IF ~(i < Len(chunks)) THEN acc
    ELSE IF failAt = 2 * i + 2
    THEN [acc EXCEPT !.err = EmbedErr, !.calls = Append(@, ExternalCall("Embed", i))]
    ELSE IF failAt = 2 * i + 3
    THEN [acc EXCEPT !.err = StoreErr,
                     !.calls = @ \o <<ExternalCall("Embed", i), ExternalCall("Store", i)>>]
    ELSE storeRemaining(i + 1, workspaceID, sessionID, chunks, timestamp, failAt,
             [acc EXCEPT !.writes =
                  Append(@, chunkRecord(workspaceID, sessionID, chunks, timestamp, i)),
                         !.calls = @ \o <<ExternalCall("Embed", i), ExternalCall("Store", i)>>])

\* Mutant: chunk 0 is stored before the collection is ensured.
firstCalls_StoreFirst(n) ==
    SubSeq(<<ExternalCall("Embed", 0), ExternalCall("Store", 0),
             ExternalCall("EnsureCollection", 0)>>, 1, n)

\* The first n external calls of ArchiveSession: chunk 0 is embedded, the
\* collection ensured with the dimension of its vector, and chunk 0 stored.
firstCalls(n) ==
    SubSeq(<<ExternalCall("Embed", 0), ExternalCall("EnsureCollection", 0),
             ExternalCall("Store", 0)>>, 1, n)

\* Step 3 of ArchiveSession: the records written, in order, and the error.
storeChunks(workspaceID, sessionID, chunks, timestamp, failAt) ==
    IF failAt = 1 THEN [writes |-> <<>>, err |-> EmbedErr, calls |-> firstCalls(1)]
    ELSE IF failAt = 2 THEN [writes |-> <<>>, err |-> EnsureErr, calls |-> firstCalls(2)]
    ELSE IF failAt = 3 THEN [writes |-> <<>>, err |-> StoreErr, calls |-> firstCalls(3)]
    ELSE storeRemaining(1, workspaceID, sessionID, chunks, timestamp, failAt,
             [writes |-> <<chunkRecord(workspaceID, sessionID, chunks, timestamp, 0)>>,
              calls |-> firstCalls(3),
              err |-> Nil])

\* Client.Store upserts: a point with the id of the record is replaced.
RECURSIVE upsertAll(_, _)
upsertAll(stored, writes) ==
    IF writes = <<>> THEN stored
    ELSE upsertAll(Put(stored, Head(writes).ID, Head(writes)), Tail(writes))

\* What one ArchiveSession call was given and did.
ArchiveCall(workspaceID, sessionID, messages, timestamp, chunks, writes, err, calls) ==
    [workspace |-> workspaceID, session |-> sessionID, messages |-> messages,
     timestamp |-> timestamp, chunks |-> chunks, writes |-> writes, err |-> err,
     calls |-> calls,
     before |-> points, after |-> upsertAll(points, writes)]

finishArchive(call) ==
    /\ archives' = Append(archives, call)
    /\ points' = call.after

archiveChunks(workspaceID, sessionID, messages, chunks, outcome) ==
    finishArchive(ArchiveCall(workspaceID, sessionID, messages, nanos, chunks,
                              outcome.writes, outcome.err, outcome.calls))

\* ArchiveSession from step 2 on, for a text that is not empty.
archiveNonEmpty(workspaceID, sessionID, messages, chunks, failAt) ==
    archiveChunks(workspaceID, sessionID, messages, chunks,
                  storeChunks(workspaceID, sessionID, chunks, nanos, failAt))

\* Manager.ArchiveSession
ArchiveSession(workspaceID, sessionID, messages, failAt) ==
    /\ Len(archives) < MaxArchives
    /\ ~search.panicked
    /\ IF ~memConfig.Enabled \/ archiveText(messages) = ""
       THEN finishArchive(ArchiveCall(workspaceID, sessionID, messages, nanos, <<>>, <<>>, Nil,
                                      <<>>))
       ELSE archiveNonEmpty(workspaceID, sessionID, messages,
                            chunksOf(archiveText(messages), chunkSizeOf(memConfig.ChunkSize)),
                            failAt)
    /\ UNCHANGED <<memConfig, nanos, search>>

\* The clock moves on: a nanosecond after the start, or to the next whole
\* second.
TimePasses ==
    /\ \/ /\ nanos = 0
          /\ nanos' = nanos + 1
       \/ /\ nanos \div Second < MaxSeconds
          /\ nanos' = (nanos \div Second + 1) * Second
    /\ UNCHANGED <<memConfig, points, archives, search>>

\* The filter Client.Search builds: every string-valued entry must match.
matchesFilters(payload, filters) ==
    \A k \in DOMAIN filters : payload[k] = filters[k]

RECURSIVE selectMatching(_, _)
selectMatching(ranking, filters) ==
    IF ranking = <<>> THEN <<>>
    ELSE IF matchesFilters(points[Head(ranking)].Payload, filters)
    THEN <<points[Head(ranking)]>> \o selectMatching(Tail(ranking), filters)
    ELSE selectMatching(Tail(ranking), filters)

\* uint64(limit) and uint64(offset): a negative value becomes a huge one.
window(matching, limit, offset) ==
    IF offset < 0 \/ offset >= Len(matching) THEN <<>>
    ELSE IF limit < 0 THEN SubSeq(matching, offset + 1, Len(matching))
    ELSE SubSeq(matching, offset + 1, minInt(offset + limit, Len(matching)))

\* Client.Search: the nearest points that pass the filter, limit of them
\* from offset on.  ranking is the order by similarity to the query vector
\* of the stored points the query may return.
dbSearch(ranking, limit, offset, filters) ==
    window(selectMatching(ranking, filters), limit, offset)

\* Mutant: the query carries no filter.
workspaceFilters_None(workspaceID) == <<>>

\* filters := map[string]interface{}{"workspace_id": workspaceID}
workspaceFilters(workspaceID) == [k \in {"workspace_id"} |-> workspaceID]

getTS(r) == r.Payload.timestamp

swap(results, j) ==
    [results EXCEPT ![j - 1] = results[j], ![j] = results[j - 1]]

\* The inner loop of sortResultsByDate: the element at j moves down while
\* its neighbour is out of order.
RECURSIVE sinkLoop(_, _, _)
sinkLoop(results, j, order) ==
    IF ~(j > 1) THEN results
    ELSE IF order = "asc" /\ getTS(results[j - 1]) > getTS(results[j])
    THEN sinkLoop(swap(results, j), j - 1, order)
    ELSE IF order # "asc" /\ getTS(results[j - 1]) < getTS(results[j])
    THEN sinkLoop(swap(results, j), j - 1, order)
    ELSE results

\* The outer loop of sortResultsByDate (positions count from 1).
RECURSIVE sortLoop(_, _, _)
sortLoop(results, i, order) ==
    IF ~(i <= Len(results)) THEN results
    ELSE sortLoop(sinkLoop(results, i, order), i + 1, order)

sortResultsByDate(results, order) == sortLoop(results, 2, order)

\* candidates := limit * 10; if candidates < 50 { candidates = 50 }
candidateCount(limit) == IF limit * 10 < 50 THEN 50 ELSE limit * 10

\* What the last Search or SearchByDate call was given and returned.
SearchCall(op, workspaceID, limit, order, requested, filters, candidates, results, panicked) ==
    [op |-> op, workspace |-> workspaceID, limit |-> limit, order |-> order,
     requested |-> requested, filters |-> filters, candidates |-> candidates,
     results |-> results, panicked |-> panicked]

NoSearch == SearchCall("", "", 0, "", 0, <<>>, <<>>, <<>>, FALSE)

\* A manager that is not enabled returns nil, nil without a query.
SearchReturnsNil(workspaceID) ==
    SearchCall("disabled", workspaceID, 0, "", 0, <<>>, <<>>, <<>>, FALSE)

searchDone(workspaceID, limit, filters, results) ==
    search' = SearchCall("Search", workspaceID, limit, "", limit, filters, results, results,
                         FALSE)

\* Manager.Search
Search(workspaceID, limit, offset, ranking) ==
    /\ ~search.panicked
    /\ IF ~memConfig.Enabled
       THEN search' = SearchReturnsNil(workspaceID)
       ELSE searchDone(workspaceID, limit, workspaceFilters(workspaceID),
                       dbSearch(ranking, limit, offset, workspaceFilters(workspaceID)))
    /\ UNCHANGED <<memConfig, nanos, points, archives>>

\* The end of SearchByDate: results[:limit] panics for a negative limit.
truncate(workspaceID, limit, order, requested, filters, candidates, sorted) ==
    IF Len(sorted) > limit
    THEN IF limit < 0
         THEN search' = SearchCall("SearchByDate", workspaceID, limit, order, requested,
                                   filters, candidates, <<>>, TRUE)
         ELSE search' = SearchCall("SearchByDate", workspaceID, limit, order, requested,
                                   filters, candidates, SubSeq(sorted, 1, limit), FALSE)
    ELSE search' = SearchCall("SearchByDate", workspaceID, limit, order, requested,
                              filters, candidates, sorted, FALSE)

sortCandidates(workspaceID, limit, order, requested, filters, candidates) ==
    truncate(workspaceID, limit, order, requested, filters, candidates,
             sortResultsByDate(candidates, order))

queryCandidates(workspaceID, limit, order, requested, filters, ranking) ==
    sortCandidates(workspaceID, limit, order, requested, filters,
                   dbSearch(ranking, requested, 0, filters))

\* Manager.SearchByDate
SearchByDate(workspaceID, limit, order, ranking) ==
    /\ ~search.panicked
    /\ IF ~memConfig.Enabled
       THEN search' = SearchReturnsNil(workspaceID)
       ELSE queryCandidates(workspaceID, limit, order, candidateCount(limit),
                            workspaceFilters(workspaceID), ranking)
    /\ UNCHANGED <<memConfig, nanos, points, archives>>

\* Inputs.
Sessions == {"s1"}
MessageLists ==
    {<<>>,
     <<Message("system", "be brief")>>,
     <<Message("system", "be brief"), Message("user", "hi")>>,
     <<Message("user", "What is up?"), Message("assistant", "Not much at all.")>>}
ChunkSizes == {0, 9, 10}
SearchChunkSizes == {0, 30}
SearchMessageLists ==
    {<<Message("system", "be brief"), Message("user", "hi")>>,
     <<Message("user", "What is up?"), Message("assistant", "Not much at all.")>>}
Limits == {-1, 0, 1, 2, 6}
Offsets == {0, 1}
SortOrders == {"asc", "desc", ""}

MemoryConfig(enabled, chunkSize) == [Enabled |-> enabled, ChunkSize |-> chunkSize]

MemIdle ==
    /\ memConfig = MemoryConfig(FALSE, 0)
    /\ nanos = 0
    /\ points = <<>>
    /\ archives = <<>>
    /\ search = NoSearch

\* NewManager over an empty collection.
ArchiveInit ==
    /\ memConfig \in {MemoryConfig(e, c) : e \in BOOLEAN, c \in ChunkSizes}
    /\ nanos = 0
    /\ points = <<>>
    /\ archives = <<>>
    /\ search = NoSearch

ArchiveNext ==
    \/ \E w \in Workspaces, s \in Sessions, m \in MessageLists, f \in 0..MaxFailAt :
          ArchiveSession(w, s, m, f)
    \/ TimePasses

\* The records a successful ArchiveSession writes.
archivedWrites(workspaceID, sessionID, messages, timestamp, chunkSize) ==
    storeChunks(workspaceID, sessionID,
                chunksOf(archiveText(messages), chunkSizeOf(chunkSize)), timestamp, 0).writes

\* The collection after the given ArchiveSession calls, made in order.
RECURSIVE collectionAfter(_, _)
collectionAfter(calls, chunkSize) ==
    IF calls = <<>> THEN <<>>
    ELSE upsertAll(collectionAfter(SubSeq(calls, 1, Len(calls) - 1), chunkSize),
                   archivedWrites(calls[Len(calls)].workspace, calls[Len(calls)].session,
                                  calls[Len(calls)].messages, calls[Len(calls)].timestamp,
                                  chunkSize))

\* Up to MaxArchives calls at clock readings that do not go back.
ArchiveCalls ==
    {calls \in SeqsUpTo([workspace : Workspaces, session : Sessions,
                         messages : SearchMessageLists,
                         timestamp : {sec * Second : sec \in 0..MaxSeconds}], MaxArchives) :
        \A i \in 1..(Len(calls) - 1) : calls[i].timestamp <= calls[i + 1].timestamp}

\* A manager over a collection that earlier archival has filled.
SearchInit ==
    /\ memConfig \in {MemoryConfig(e, c) : e \in BOOLEAN, c \in SearchChunkSizes}
    /\ nanos = MaxSeconds * Second
    /\ points \in {collectionAfter(calls, memConfig.ChunkSize) : calls \in ArchiveCalls}
    /\ archives = <<>>
    /\ search = NoSearch

\* The orders by similarity to a query in which the database may rank the
\* stored points that pass the filters.
Rankings(filters) ==
    Orders({id \in DOMAIN points : matchesFilters(points[id].Payload, filters)})

\* One query against the collection: a query leaves the manager and the
\* collection as they were, so every query starts from what archival left.
SearchNext ==
    \/ /\ search = NoSearch
       /\ \E w \in Workspaces, limit \in Limits, offset \in Offsets :
             \E ranking \in Rankings(workspaceFilters(w)) :
                 Search(w, limit, offset, ranking)
    \/ /\ search = NoSearch
       /\ \E w \in Workspaces, limit \in Limits, order \in SortOrders :
             \E ranking \in Rankings(workspaceFilters(w)) :
                 SearchByDate(w, limit, order, ranking)

(***************************************************************************)
(* Dashboard activity buffer (ActivityBuffer).                             *)
(***************************************************************************)
\* Bounds: the largest capacity, and the number of Add calls.
MaxSize == 3
MaxAdds == 5

Callers == {"c1", "c2"}

NoHolder == ""

\* NewActivityBuffer(size)
NewActivityBuffer(n) == [events |-> <<>>, size |-> n]

\* Mutant: the oldest event goes only when the buffer is over its size.
evictOldest_WhenOver(evs, n) == IF Len(evs) > n THEN Tail(evs) ELSE evs

\* if len(ab.events) >= ab.size { ab.events = ab.events[1:] }
evictOldest(evs, n) == IF Len(evs) >= n THEN Tail(evs) ELSE evs

\* A caller calls Add(event) and reaches ab.mu.Lock().
AddCall(c) ==
    /\ adding[c].pc = "idle"
    /\ issued < MaxAdds
    /\ issued' = issued + 1
    /\ adding' = [adding EXCEPT ![c] = [pc |-> "lock", event |-> issued + 1]]
    /\ UNCHANGED <<buffer, mu, added>>

\* ab.mu.Lock() returns: the caller holds the mutex.
AddLock(c) ==
    /\ adding[c].pc = "lock"
    /\ mu = NoHolder
    /\ mu' = c
    /\ adding' = [adding EXCEPT ![c].pc = "locked"]
    /\ UNCHANGED <<buffer, added, issued>>

\* The body of Add under the mutex, and the deferred Unlock.
AddBody(c) ==
    /\ adding[c].pc = "locked"
    /\ mu = c
    /\ buffer' = [buffer EXCEPT
                      !.events = Append(evictOldest(buffer.events, buffer.size),
                                        adding[c].event)]
    /\ added' = Append(added, adding[c].event)
    /\ mu' = NoHolder
    /\ adding' = [adding EXCEPT ![c] = [pc |-> "idle", event |-> 0]]
    /\ UNCHANGED issued

BufferIdle ==
    /\ buffer = NewActivityBuffer(1)
    /\ mu = NoHolder
    /\ adding = [c \in Callers |-> [pc |-> "idle", event |-> 0]]
    /\ added = <<>>
    /\ issued = 0

BufferInit ==
    /\ buffer \in {NewActivityBuffer(n) : n \in 1..MaxSize}
    /\ mu = NoHolder
    /\ adding = [c \in Callers |-> [pc |-> "idle", event |-> 0]]
    /\ added = <<>>
    /\ issued = 0

BufferNext ==
    \E c \in Callers :
        \/ AddCall(c)
        \/ AddLock(c)
        \/ AddBody(c)

(***************************************************************************)
(* Gateway: the webhook handler and the heartbeat handler (gatewayCmd).    *)
(***************************************************************************)
\* Bounds: the requests the processor has been handed, and the heartbeats.
MaxForwarded == 2
MaxBeats == 2

StatusOK == 200
StatusBadRequest == 400
StatusUnauthorized == 401
StatusNotFound == 404
StatusMethodNotAllowed == 405
StatusInternalServerError == 500

WebhookConfig(format, secret, agent) == [Format |-> format, Secret |-> secret, Agent |-> agent]

\* strings.Trim(s, "/")
RECURSIVE trimLeft(_, _)
trimLeft(s, c) == IF Len(s) > 0 /\ SubSeq(s, 1, 1) = c THEN trimLeft(Tail(s), c) ELSE s

RECURSIVE trimRight(_, _)
trimRight(s, c) ==
    IF Len(s) > 0 /\ SubSeq(s, Len(s), Len(s)) = c
    THEN trimRight(SubSeq(s, 1, Len(s) - 1), c)
    ELSE s

Trim(s, c) == trimRight(trimLeft(s, c), c)

\* The position of the first c in s, 0 when there is none.
RECURSIVE indexFrom(_, _, _)
indexFrom(s, c, i) ==
    IF i > Len(s) THEN 0
    ELSE IF SubSeq(s, i, i) = c THEN i
    ELSE indexFrom(s, c, i + 1)

\* strings.Split(s, sep) for a separator of one character.
RECURSIVE splitAt(_, _, _)
splitAt(s, c, i) ==
    IF i = 0 THEN <<s>>
    ELSE <<SubSeq(s, 1, i - 1)>>
         \o splitAt(SubSeq(s, i + 1, Len(s)), c, indexFrom(SubSeq(s, i + 1, Len(s)), c, 1))

Split(s, c) == splitAt(s, c, indexFrom(s, c, 1))

\* strings.SplitN(s, sep, 2)
cutAt(s, i) == IF i = 0 THEN <<s>> ELSE <<SubSeq(s, 1, i - 1), SubSeq(s, i + 1, Len(s))>>

SplitN2(s, c) == cutAt(s, indexFrom(s, c, 1))

\* hex.EncodeToString of the HMAC-SHA256 of body under secret: a function of
\* the pair that gives different digests for different pairs.
hexMAC(secret, body) == "mac<" \o secret \o "|" \o body \o ">"

\* Mutant: the comparison looks at the length only.
hmacEqual_LengthOnly(a, b) == Len(a) = Len(b)

\* hmac.Equal
hmacEqual(a, b) == a = b

\* The inputs of the handler.
WebhookIDs == {"test-id", "github-id"}
Secrets == {"my_secret", "s3cret"}
Bodies == {"push", "ping"}
Events == {"", "push"}
Methods == {"GET", "POST"}
Paths == {"/webhook/test-id", "/webhook/github-id", "/webhook/github-id/", "/wrong/test-id",
          "/webhook/unknown-id", "/webhook", "/webhook/test-id/x"}
SignatureHeaders ==
    {"", "bad:format", "sha256=abcdef", "sha256", "=" \o hexMAC("my_secret", "push"),
     "sha1=" \o hexMAC("my_secret", "push")}
        \cup {"sha256=" \o hexMAC(s, b) : s \in Secrets, b \in Bodies}

PathTable == Tabulate([p \in Paths |-> Split(Trim(p, "/"), "/")])
SignatureTable == Tabulate([h \in SignatureHeaders |-> SplitN2(h, "=")])

\* strings.Split(strings.Trim(r.URL.Path, "/"), "/")
pathParts(path) == PathTable[path]

\* strings.SplitN(sigHeader, "=", 2)
signatureParts(sigHeader) == SignatureTable[sigHeader]

\* An HTTP request: signature and event are the values of X-Hub-Signature-256
\* and X-GitHub-Event ("" when the header is absent), readErr says that
\* reading the body fails.
Request(method, path, signature, event, body, readErr) ==
    [method |-> method, path |-> path, signature |-> signature, event |-> event,
     body |-> body, readErr |-> readErr]

\* routing.SessionKeyParams of a webhook delivery.
SessionKeyParams(agentID, channel, kind, id, scope) ==
    [AgentID |-> agentID, Channel |-> channel, Peer |-> [Kind |-> kind, ID |-> id],
     DMScope |-> scope]

DMScopePerChannelPeer == "per-channel-peer"

\* routing.BuildAgentPeerSessionKey: the key is made of the fields that
\* matter under the scope, and of nothing else.
BuildAgentPeerSessionKey(params) ==
    IF params.DMScope = DMScopePerChannelPeer
    THEN <<"agent", params.AgentID, params.Channel, params.Peer.Kind, params.Peer.ID>>
    ELSE <<"agent", params.AgentID, params.Peer.Kind, params.Peer.ID>>

\* Mutant: the configured agent is used as it is.
agentOf_NoDefault(webhook) == webhook.Agent

\* agentID := webhook.Agent; if agentID == "" { agentID = "default" }
agentOf(webhook) == IF webhook.Agent = "" THEN "default" ELSE webhook.Agent

sessionKeyOf(webhook, webhookID) ==
    BuildAgentPeerSessionKey(
        SessionKeyParams(agentOf(webhook), "webhook", "direct", webhookID, DMScopePerChannelPeer))

payloadOf(webhook, req) ==
    IF webhook.Format = "github"
    THEN "GitHub Webhook Event: " \o req.event \o "\nPayload: " \o req.body
    ELSE "Webhook Event: " \o req.body

\* A call of processor.ProcessDirectWithChannel.
ProcessorCall(content, sessionKey, channel, chatID, agent) ==
    [content |-> content, sessionKey |-> sessionKey, channel |-> channel, chatID |-> chatID,
     agent |-> agent]

\* What the handler did with a request: the response, and the call of the
\* processor if there was one.
Delivery(req, status, text, called, call) ==
    [req |-> req, status |-> status, text |-> text, called |-> called, call |-> call]

NoCall == ProcessorCall("", <<>>, "", "", "")

NoDelivery == Delivery(Request("", "", "", "", "", FALSE), 0, "", FALSE, NoCall)

\* http.Error(w, text, status); return
httpError(req, text, status) ==
    /\ delivery' = Delivery(req, status, text, FALSE, NoCall)
    /\ UNCHANGED forwarded

\* The call of the processor and the response after it.
process(req, procErr, call) ==
    /\ forwarded' = Append(forwarded, call)
    /\ IF procErr
       THEN delivery' = Delivery(req, StatusInternalServerError, "Internal server error",
                                 TRUE, call)
       ELSE delivery' = Delivery(req, StatusOK, "OK", TRUE, call)

forward(req, procErr, webhookID, webhook) ==
    process(req, procErr,
            ProcessorCall(payloadOf(webhook, req), sessionKeyOf(webhook, webhookID),
                          "webhook", webhookID, webhook.Agent))

checkMAC(req, procErr, webhookID, webhook, parts) ==
    IF ~hmacEqual(parts[2], hexMAC(webhook.Secret, req.body))
    THEN httpError(req, "Invalid signature", StatusUnauthorized)
    ELSE forward(req, procErr, webhookID, webhook)

checkFormat(req, procErr, webhookID, webhook, parts) ==
    IF Len(parts) # 2 \/ parts[1] # "sha256"
    THEN httpError(req, "Invalid signature format", StatusBadRequest)
    ELSE checkMAC(req, procErr, webhookID, webhook, parts)

\* The signature check of a github webhook.
verifySignature(req, procErr, webhookID, webhook) ==
    IF req.signature = ""
    THEN httpError(req, "Missing signature", StatusUnauthorized)
    ELSE checkFormat(req, procErr, webhookID, webhook, signatureParts(req.signature))

readBody(req, procErr, webhookID, webhook) ==
    IF req.readErr
    THEN httpError(req, "Error reading body", StatusInternalServerError)
    ELSE IF webhook.Format = "github"
    THEN verifySignature(req, procErr, webhookID, webhook)
    ELSE forward(req, procErr, webhookID, webhook)

lookupWebhook(req, procErr, webhookID) ==
    IF webhookID \notin DOMAIN webhooks
    THEN httpError(req, "Webhook not found", StatusNotFound)
    ELSE readBody(req, procErr, webhookID, webhooks[webhookID])

\* Mutant: the first part of the path is not looked at.
routePath_AnyPrefix(req, procErr, parts) ==
    IF Len(parts) # 2
    THEN httpError(req, "Not found", StatusNotFound)
    ELSE lookupWebhook(req, procErr, parts[2])

routePath(req, procErr, parts) ==
    IF Len(parts) # 2 \/ parts[1] # "webhook"
    THEN httpError(req, "Not found", StatusNotFound)
    ELSE lookupWebhook(req, procErr, parts[2])

\* The handler webhookHandler returns, serving one request; procErr says
\* that the processor returns an error.
webhookHandler(req, procErr) ==
    /\ Len(forwarded) < MaxForwarded
    /\ IF req.method # "POST"
       THEN httpError(req, "Method not allowed", StatusMethodNotAllowed)
       ELSE routePath(req, procErr, pathParts(req.path))
    /\ UNCHANGED <<webhooks, beats, outbound>>

\* gatewayCmd starts over with another configuration file.
LoadConfig(cfg) ==
    /\ webhooks # cfg
    /\ webhooks' = cfg
    /\ UNCHANGED <<delivery, forwarded, beats, outbound>>

\* tools.ToolResult, and the constructors the handlers use.
ToolResult(forLLM, forUser, silent, isError) ==
    [ForLLM |-> forLLM, ForUser |-> forUser, Silent |-> silent, IsError |-> isError,
     Err |-> Nil]

SilentResult(forLLM) == ToolResult(forLLM, "", TRUE, FALSE)

ErrorResult(message) == ToolResult(message, "", FALSE, TRUE)

\* Mutant: a reply other than HEARTBEAT_OK is handed on for the user.
heartbeatResult_ForUser(response, err) ==
    IF err # Nil THEN ErrorResult("Heartbeat error: " \o err)
    ELSE IF response = "HEARTBEAT_OK" THEN SilentResult("Heartbeat OK")
    ELSE ToolResult(response, response, FALSE, FALSE)

\* The handler gatewayCmd gives the heartbeat service, after ProcessHeartbeat
\* has returned response and err.
heartbeatResult(response, err) ==
    IF err # Nil THEN ErrorResult("Heartbeat error: " \o err)
    ELSE IF response = "HEARTBEAT_OK" THEN SilentResult("Heartbeat OK")
    ELSE SilentResult(response)

\* "Use cli:direct as fallback if no valid channel"
heartbeatTarget(channel, chatID) ==
    IF channel = "" \/ chatID = ""
    THEN [channel |-> "cli", chatID |-> "direct"]
    ELSE [channel |-> channel, chatID |-> chatID]

\* The heartbeat service sends on the bus what a result holds for the user,
\* unless the result is silent or an error.
publishes(result) == ~result.Silent /\ ~result.IsError

Beat(target, response, err, result) ==
    [channel |-> target.channel, chatID |-> target.chatID, response |-> response,
     err |-> err, result |-> result, sent |-> publishes(result)]

recordBeat(beat) ==
    /\ beats' = Append(beats, beat)
    /\ outbound' = IF beat.sent
                   THEN Append(outbound, [channel |-> beat.channel, chatID |-> beat.chatID,
                                          content |-> beat.result.ForUser])
                   ELSE outbound

\* One heartbeat: the service calls the handler and acts on its result.
Heartbeat(channel, chatID, response, err) ==
    /\ Len(beats) < MaxBeats
    /\ recordBeat(Beat(heartbeatTarget(channel, chatID), response, err,
                       heartbeatResult(response, err)))
    /\ UNCHANGED <<webhooks, delivery, forwarded>>

\* Inputs.
TestWebhooks ==
    [id \in WebhookIDs |-> IF id = "test-id" THEN WebhookConfig("json", "", "default")
                           ELSE WebhookConfig("github", "my_secret", "my_agent")]
OtherWebhooks ==
    [id \in WebhookIDs |-> IF id = "test-id" THEN WebhookConfig("json", "", "")
                           ELSE WebhookConfig("github", "s3cret", "default")]
OneWebhook == [id \in {"test-id"} |-> WebhookConfig("github", "my_secret", "my_agent")]
WebhookConfigs == {TestWebhooks, OtherWebhooks, OneWebhook}

Requests ==
    {Request(m, p, s, e, b, r) : m \in Methods, p \in Paths, s \in SignatureHeaders,
                                 e \in Events, b \in Bodies, r \in BOOLEAN}

\* Requests that get through when their webhook is configured for them.
SignedRequests ==
    {Request("POST", p, s, "push", "push", FALSE) :
         p \in {"/webhook/test-id", "/webhook/github-id"},
         s \in {"", "sha256=" \o hexMAC("my_secret", "push"),
                "sha256=" \o hexMAC("s3cret", "push")}}

HeartbeatTargets == {<<"", "">>, <<"telegram", "42">>, <<"telegram", "">>}
Replies == {"HEARTBEAT_OK", "heartbeat_ok", "HEARTBEAT_OK.", "Water the plants."}
AgentErrors == {Nil, "context deadline exceeded"}

GatewayIdle ==
    /\ webhooks = <<>>
    /\ delivery = NoDelivery
    /\ forwarded = <<>>
    /\ beats = <<>>
    /\ outbound = <<>>

\* A gateway started with one of the configurations.
WebhookInit ==
    /\ webhooks \in WebhookConfigs
    /\ delivery = NoDelivery
    /\ forwarded = <<>>
    /\ beats = <<>>
    /\ outbound = <<>>

HeartbeatInit ==
    /\ webhooks = TestWebhooks
    /\ delivery = NoDelivery
    /\ forwarded = <<>>
    /\ beats = <<>>
    /\ outbound = <<>>

\* One request: the handler keeps nothing between requests.
WebhookNext ==
    /\ delivery = NoDelivery
    /\ \E req \in Requests, procErr \in BOOLEAN : webhookHandler(req, procErr)

\* Deliveries under configurations that change between them.
SessionNext ==
    \/ \E req \in SignedRequests : webhookHandler(req, FALSE)
    \/ \E cfg \in WebhookConfigs : LoadConfig(cfg)

HeartbeatNext ==
    \E target \in HeartbeatTargets, response \in Replies, err \in AgentErrors :
        Heartbeat(target[1], target[2], response, err)

(***************************************************************************)
(* The MCP tool adapter: MCPTool.Execute over the manager's CallTool.      *)
(***************************************************************************)
\* The position of the first "__" in s at or after i, 0 when there is none.
RECURSIVE indexSep(_, _)
indexSep(s, i) ==
    IF i + 1 > Len(s) THEN 0
    ELSE IF SubSeq(s, i, i + 1) = "__" THEN i
    ELSE indexSep(s, i + 1)

\* strings.SplitN(s, "__", 2)
SplitN(s) ==
    IF indexSep(s, 1) = 0 THEN <<s>>
    ELSE <<SubSeq(s, 1, indexSep(s, 1) - 1), SubSeq(s, indexSep(s, 1) + 2, Len(s))>>

\* The white space strings.TrimSpace removes, of the characters in use.
isSpace(c) == c \in {" ", "\n", "\t"}

RECURSIVE trimSpaceLeft(_)
trimSpaceLeft(s) ==
    IF Len(s) > 0 /\ isSpace(SubSeq(s, 1, 1)) THEN trimSpaceLeft(Tail(s)) ELSE s

RECURSIVE trimSpaceRight(_)
trimSpaceRight(s) ==
    IF Len(s) > 0 /\ isSpace(SubSeq(s, Len(s), Len(s)))
    THEN trimSpaceRight(SubSeq(s, 1, Len(s) - 1))
    ELSE s

TrimSpace(s) == trimSpaceRight(trimSpaceLeft(s))

ToolContent(type, text) == [Type |-> type, Text |-> text]

CallToolResult(content, isError) == [Content |-> content, IsError |-> isError]

\* What CallTool returns: the result, or err other than Nil.
CallReturn(res, err) == [res |-> res, err |-> err]

\* MCPManager.CallTool: the request is built and dropped, and every call of
\* a connected server is answered with the same text item.
CallTool(serverName, toolName) ==
    IF serverName \notin DOMAIN Servers
    THEN CallReturn(Nil, "server " \o serverName \o " not found")
    ELSE IF ~Servers[serverName].Connected
    THEN CallReturn(Nil, "server " \o serverName \o " not connected")
    ELSE CallReturn(CallToolResult(<<ToolContent("text", "MCP tool result")>>, FALSE), Nil)

\* The loop of Execute over res.Content: the text items, each followed by a
\* newline.
RECURSIVE writeText(_)
writeText(content) ==
    IF content = <<>> THEN ""
    ELSE (IF Head(content).Type = "text" THEN Head(content).Text \o "\n" ELSE "")
         \o writeText(Tail(content))

\* &ToolResult{Err: err}
errResult(err) == [ToolResult("", "", FALSE, FALSE) EXCEPT !.Err = err]

\* Mutant: the text is returned as the loop wrote it, not trimmed.
resultOf_Untrimmed(res) ==
    IF res.IsError
    THEN errResult("MCP tool error: " \o writeText(res.Content))
    ELSE ToolResult(writeText(res.Content), "", FALSE, FALSE)

\* Execute from the return of CallTool on.
resultOf(res) ==
    IF res.IsError
    THEN errResult("MCP tool error: " \o TrimSpace(writeText(res.Content)))
    ELSE ToolResult(TrimSpace(writeText(res.Content)), "", FALSE, FALSE)

afterCall(ret) ==
    IF ret.err # Nil THEN errResult(ret.err) ELSE resultOf(ret.res)

execute(name) ==
    IF Len(SplitN(name)) # 2
    THEN errResult("invalid MCP tool name format")
    ELSE afterCall(CallTool(SplitN(name)[1], SplitN(name)[2]))

\* A call of Execute: the catalog entry the tool was built from (server and
\* tool, empty when it was built from a name alone), whether CallTool was
\* reached and with which server and tool name, what it returned, and the
\* result of Execute.
ToolCall(name, entry, called, args, ret, result) ==
    [Name |-> name, entry |-> entry, called |-> called, args |-> args, ret |-> ret,
     result |-> result]

NoEntry == <<>>

\* Execute of the tool registered under name, from its first line to its
\* return.
callOf(name, entry) ==
    IF Len(SplitN(name)) # 2
    THEN ToolCall(name, entry, FALSE, <<>>, CallReturn(Nil, Nil), execute(name))
    ELSE ToolCall(name, entry, TRUE, <<SplitN(name)[1], SplitN(name)[2]>>,
                  CallTool(SplitN(name)[1], SplitN(name)[2]), execute(name))

\* Bound: calls of Execute followed.
MaxCalls == 2

\* MCPTool.Execute of the tool registered under name.
Execute(name) ==
    /\ ~crashed
    /\ Len(toolCalls) < MaxCalls
    /\ toolCalls' = Append(toolCalls, callOf(name, NoEntry))

\* NewMCPTool(manager, def).Execute for the entry def that GetAllTools builds
\* from the i-th tool of server s.
ExecuteEntry(s, i) ==
    /\ ~crashed
    /\ Len(toolCalls) < MaxCalls
    /\ s \in DOMAIN Servers
    /\ Servers[s].Connected
    /\ i \in 1..Len(Servers[s].Tools)
    /\ isToolAllowed(Servers[s], Servers[s].Tools[i].Name)
    /\ toolCalls' = Append(toolCalls,
                           callOf(prefixedName(Servers[s], Servers[s].Tools[i]),
                                  <<s, Servers[s].Tools[i].Name>>))

\* The names a tool is registered under: those GetAllTools gives, and names
\* without the separator.
RegisteredNames ==
    {s \o "__" \o t : s \in ServerNames, t \in ToolNames} \cup {"read", "fs_read"}

ToolIdle == toolCalls = <<>>

ToolNext == \E name \in RegisteredNames : Execute(name)

\* The servers the manager is given here: stdio servers without lists.
PlainConfigs == {c \in DirectConfigs : c.ToolAllowList = <<>> /\ c.ToolDenyList = <<>>
                                       /\ c.WorkspaceAllowList = <<>>
                                       /\ c.WorkspaceDenyList = <<>>}

\* The manager's operations that decide what CallTool answers.
ToolServers ==
    \/ \E config \in PlainConfigs : AddServer(config)
    \/ \E name \in ServerNames : RemoveServer(name)
    \/ \E name \in ServerNames : DisconnectServer(name)

RoutingNext == \E s \in ServerNames, i \in 1..MaxTools : ExecuteEntry(s, i)

\* Servers registered with the tools they advertise, and removed.
RoutingServers ==
    \/ \E config \in PlainConfigs, tools \in ToolLists : SetServer(config, TRUE, tools)
    \/ \E name \in ServerNames : RemoveServer(name)

(***************************************************************************)
(* The metrics decorator of the providers: MetricsWrapper.Chat, the agent  *)
(* type carried by the context, and Recorder.RecordLLMCall.                *)
(***************************************************************************)
\* Bound: calls of MetricsWrapper.Chat followed.
MaxChats == 2

AgentTypeMain == "main"
AgentTypeSubagent == "subagent"
AgentTypeHeartbeat == "heartbeat"
AgentTypeCron == "cron"

agentTypeKey == "picoclaw_agent_type"

\* A context: its values by key.  context.Background() carries none.
Background == <<>>

\* context.WithValue: the value given last is the one the key is found with.
WithValue(ctx, key, value) == Put(ctx, key, [string |-> value])

WithAgentType(ctx, at) == WithValue(ctx, agentTypeKey, at)

AgentTypeFromContext(ctx) ==
    IF agentTypeKey \in DOMAIN ctx /\ "string" \in DOMAIN ctx[agentTypeKey]
    THEN ctx[agentTypeKey].string
    ELSE AgentTypeMain

\* providers.UsageInfo and providers.LLMResponse; isNil marks the nil pointer
\* of either.
UsageInfo(prompt, completion) ==
    [isNil |-> FALSE, PromptTokens |-> prompt, CompletionTokens |-> completion,
     TotalTokens |-> prompt + completion]

NilUsage == [isNil |-> TRUE, PromptTokens |-> 0, CompletionTokens |-> 0, TotalTokens |-> 0]

LLMResponse(content, usage) == [isNil |-> FALSE, Content |-> content, Usage |-> usage]

NilResponse == [isNil |-> TRUE, Content |-> "", Usage |-> NilUsage]

\* What a Chat returns.
ChatReturn(resp, err) == [resp |-> resp, err |-> err]

\* The metrics of an LLM call held by the registry: counters by label values
\* and the observations of the histograms in the order made.
NewRegistry ==
    [llmRequests |-> <<>>, llmRequestDuration |-> <<>>, llmTokensPrompt |-> <<>>,
     llmTokensCompletion |-> <<>>, llmContextSize |-> <<>>]

\* counter.WithLabelValues(labels...).Add(n)
Add(counter, labels, n) ==
    [l \in DOMAIN counter \cup {labels} |->
        (IF l \in DOMAIN counter THEN counter[l] ELSE 0) + (IF l = labels THEN n ELSE 0)]

\* histogram.WithLabelValues(labels...).Observe(value)
Observe(histogram, labels, value) == Append(histogram, [labels |-> labels, value |-> value])

recordTokens(reg, model, provider, apiBase, agentType, usage) ==
    IF ~usage.isNil
    THEN [reg EXCEPT
            !.llmTokensPrompt = Add(@, <<model, provider, apiBase, agentType>>,
                                    usage.PromptTokens),
            !.llmTokensCompletion = Add(@, <<model, provider, apiBase, agentType>>,
                                        usage.CompletionTokens)]
    ELSE reg

\* Recorder.RecordLLMCall
RecordLLMCall(reg, model, provider, apiBase, agentType, status, duration, usage, contextSize) ==
    [recordTokens(reg, model, provider, apiBase, agentType, usage) EXCEPT
        !.llmRequests = Add(@, <<model, provider, agentType>>, 1),
        !.llmRequestDuration =
            Observe(@, <<model, provider, apiBase, agentType, status>>, duration),
        !.llmContextSize = Observe(@, <<model, agentType>>, contextSize)]

\* Mutant: every call is recorded as a success.
statusOf_AlwaysSuccess(err) == "success"

statusOf(err) == IF err # Nil THEN "error" ELSE "success"

\* metrics.LLMUsageInfo, with isNil for the nil pointer.
LLMUsageInfo(prompt, completion, total) ==
    [isNil |-> FALSE, PromptTokens |-> prompt, CompletionTokens |-> completion,
     TotalTokens |-> total]

usageOf(resp) ==
    IF ~resp.isNil /\ ~resp.Usage.isNil
    THEN LLMUsageInfo(resp.Usage.PromptTokens, resp.Usage.CompletionTokens,
                      resp.Usage.TotalTokens)
    ELSE NilUsage

\* The wrapped provider of the decorator: its ID and API base.
WrappedID == "openai"
WrappedAPIBase == "https://api.openai.com"

MetricChat(ctx, given, model, inner, returned) ==
    [ctx |-> ctx, given |-> given, model |-> model, inner |-> inner, returned |-> returned]

\* MetricsWrapper.Chat under a context built with the agent type given (Nil:
\* none was set), where the wrapped provider returns inner after duration.
MetricsWrapperChat(ctx, given, model, inner, duration) ==
    /\ Len(metricChats) < MaxChats
    /\ wrappedCalls' = Append(wrappedCalls, [ctx |-> ctx, model |-> model])
    /\ registry' = RecordLLMCall(registry, model, WrappedID, WrappedAPIBase,
                                 AgentTypeFromContext(ctx), statusOf(inner.err),
                                 duration, usageOf(inner.resp), 0)
    /\ metricChats' = Append(metricChats,
                             MetricChat(ctx, given, model, inner,
                                        ChatReturn(inner.resp, inner.err)))

\* The contexts a Chat is called under, each with the agent type it was given
\* last: none set, one set, and one set over another.
AgentTypes == {AgentTypeMain, AgentTypeSubagent, AgentTypeHeartbeat, AgentTypeCron}

Contexts ==
    {[ctx |-> Background, given |-> Nil],
     [ctx |-> WithValue(Background, "request_id", "r1"), given |-> Nil],
     [ctx |-> WithAgentType(WithAgentType(Background, AgentTypeCron), AgentTypeSubagent),
      given |-> AgentTypeSubagent]}
    \cup {[ctx |-> WithAgentType(Background, at), given |-> at] :
             at \in {AgentTypeSubagent, AgentTypeHeartbeat}}

MetricModels == {"gpt-4", "glm-4"}

\* What the wrapped provider returns: a response with or without usage, an
\* error without a response, and an error beside a partial response.
ChatReturns ==
    {ChatReturn(LLMResponse("hello", UsageInfo(3, 2)), Nil),
     ChatReturn(LLMResponse("hello", NilUsage), Nil),
     ChatReturn(NilResponse, "rate limit"),
     ChatReturn(LLMResponse("hel", UsageInfo(3, 1)), "stream closed")}

Durations == {2}

MetricsIdle ==
    /\ registry = NewRegistry
    /\ wrappedCalls = <<>>
    /\ metricChats = <<>>

MetricsNext ==
    \E c \in Contexts, model \in MetricModels, inner \in ChatReturns, d \in Durations :
        MetricsWrapperChat(c.ctx, c.given, model, inner, d)

(***************************************************************************)
(* The orchestrator's mailbox: MemoryStore.                                *)
(***************************************************************************)
\* Bound: mailbox sent.
MaxMessages == 2

\* mailbox.Message; the Timestamp is stored and never read by the store.
MailMessage(id, from, to, content, read) ==
    [ID |-> id, From |-> from, To |-> to, Content |-> content, Read |-> read]

NilMessage == MailMessage("", "", "", "", FALSE)

\* NewMemoryStore: the empty map.
NewMemoryStore == <<>>

\* uuid.New().String(): an id no earlier message has; n is the number of the
\* call of SendMessage.
newID(n) == "uuid-" \o natToString(n)

\* The return of ListMessages, as last called.
Listing(called, user, result) == [called |-> called, user |-> user, result |-> result]

NoListing == Listing(FALSE, "", <<>>)

\* The return of ReadMessage, as last called.
Reading(called, user, msgID, msg, err) ==
    [called |-> called, user |-> user, msgID |-> msgID, msg |-> msg, err |-> err]

NoReading == Reading(FALSE, "", "", NilMessage, Nil)

SendMessage(from, to, content) ==
    /\ sent < MaxMessages
    /\ sent' = sent + 1
    /\ mailbox' = Put(mailbox, newID(sent + 1),
                       MailMessage(newID(sent + 1), from, to, content, FALSE))
    /\ UNCHANGED <<listing, reading>>

\* Mutant: the mailbox the user sent are listed too.
RECURSIVE listLoop_SentToo(_, _)
listLoop_SentToo(order, user) ==
    IF order = <<>> THEN <<>>
    ELSE (IF mailbox[Head(order)].To = user \/ mailbox[Head(order)].From = user
          THEN <<mailbox[Head(order)]>>
          ELSE <<>>) \o listLoop_SentToo(Tail(order), user)

\* The loop of ListMessages over the map, iterated in the given order.
RECURSIVE listLoop(_, _)
listLoop(order, user) ==
    IF order = <<>> THEN <<>>
    ELSE (IF mailbox[Head(order)].To = user \/ mailbox[Head(order)].From = user
          THEN (IF mailbox[Head(order)].To = user
                THEN <<mailbox[Head(order)]>>
                ELSE <<>>)
          ELSE <<>>) \o listLoop(Tail(order), user)

ListMessages(user, order) ==
    /\ listing' = Listing(TRUE, user, listLoop(order, user))
    /\ UNCHANGED <<mailbox, sent, reading>>

\* Mutant: the recipient is not checked.
readCheck_Anyone(user, msgID) ==
    IF msgID \notin DOMAIN mailbox THEN "message not found" ELSE Nil

\* The checks of ReadMessage: the error it returns, Nil when it goes on.
readCheck(user, msgID) ==
    IF msgID \notin DOMAIN mailbox THEN "message not found"
    ELSE IF mailbox[msgID].To # user THEN "unauthorized"
    ELSE Nil

ReadMessage(user, msgID) ==
    IF readCheck(user, msgID) # Nil
    THEN /\ reading' = Reading(TRUE, user, msgID, NilMessage, readCheck(user, msgID))
         /\ UNCHANGED <<mailbox, sent, listing>>
    ELSE /\ mailbox' = [mailbox EXCEPT ![msgID].Read = TRUE]
         /\ reading' = Reading(TRUE, user, msgID, [mailbox[msgID] EXCEPT !.Read = TRUE], Nil)
         /\ UNCHANGED <<sent, listing>>

MailUsers == {"kid", "dad", "mom"}

\* Sender and recipient of the mailbox sent: those of the tests, and a note
\* to oneself.
Senders == {<<"dad", "kid">>, <<"kid", "dad">>, <<"mom", "kid">>, <<"dad", "dad">>}

MailContents == {"Clean your room"}

\* The ids ReadMessage is called with: those SendMessage gives and one more.
MessageIDs == {newID(n) : n \in 1..MaxMessages} \cup {"no-such-id"}

MailIdle ==
    /\ mailbox = NewMemoryStore
    /\ sent = 0
    /\ listing = NoListing
    /\ reading = NoReading

MailNext ==
    \/ \E p \in Senders, content \in MailContents : SendMessage(p[1], p[2], content)
    \/ \E user \in MailUsers, order \in Orders(DOMAIN mailbox) : ListMessages(user, order)
    \/ \E user \in MailUsers, msgID \in MessageIDs : ReadMessage(user, msgID)

(***************************************************************************)
(* The orchestrator's family store: chores and shared lists.               *)
(***************************************************************************)
\* Bounds: chores assigned; ids given to lists and list items.
MaxChores == 2
MaxListIDs == 2

StatusPending == "pending"
StatusCompleted == "completed"
StatusVerified == "verified"

\* time.Now(), and the nil pointer to a time.
Now == "now"
NilTime == "nil"

Chore(id, assigner, assignee, title, status, completedAt, verifiedAt) ==
    [ID |-> id, Assigner |-> assigner, Assignee |-> assignee, Title |-> title,
     Status |-> status, CompletedAt |-> completedAt, VerifiedAt |-> verifiedAt]

ListItem(id, content, addedBy, completed, completedBy, completedAt) ==
    [ID |-> id, Content |-> content, AddedBy |-> addedBy, Completed |-> completed,
     CompletedBy |-> completedBy, CompletedAt |-> completedAt]

\* List: Items is a slice, that is the array it points into (0 for the
\* empty literal, which has none), its length and its capacity.
List(id, name, createdBy, items) ==
    [ID |-> id, Name |-> name, CreatedBy |-> createdBy, Items |-> items]

Slice(array, len, cap) == [array |-> array, len |-> len, cap |-> cap]

\* []ListItem{}
EmptySlice == Slice(0, 0, 0)

\* The zero ListItem, which fills an array beyond the items appended.
ZeroItem == ListItem("", "", "", FALSE, "", NilTime)

\* The elements a slice shows of the arrays h.
elems(h, s) == IF s.len = 0 THEN <<>> ELSE SubSeq(h[s.array], 1, s.len)

\* The capacity append grows a full slice of list items to.
grown(cap) == IF cap = 0 THEN 1 ELSE 2 * cap

\* append(s, item): within the capacity the item is written into the array
\* of s, else into a new array that holds a copy of the elements of s.
appendItem(h, s, item) ==
    IF s.len < s.cap
    THEN [arrays |-> [h EXCEPT ![s.array][s.len + 1] = item],
          slice |-> Slice(s.array, s.len + 1, s.cap)]
    ELSE [arrays |-> Append(h, [i \in 1..grown(s.cap) |->
                                  IF i <= s.len THEN h[s.array][i]
                                  ELSE IF i = s.len + 1 THEN item ELSE ZeroItem]),
          slice |-> Slice(Len(h) + 1, s.len + 1, grown(s.cap))]

\* A call of the store that returns an error only, as last made.
StoreCall(op, user, id, approved, err) ==
    [op |-> op, user |-> user, id |-> id, approved |-> approved, err |-> err]

NoStoreCall == StoreCall("", "", "", FALSE, Nil)

AssignChore(assigner, assignee, title) ==
    /\ Cardinality(DOMAIN chores) < MaxChores
    /\ uuids' = uuids + 1
    /\ chores' = Put(chores, newID(uuids + 1),
                     Chore(newID(uuids + 1), assigner, assignee, title, StatusPending,
                           NilTime, NilTime))
    /\ UNCHANGED <<lists, arrays, storeCall, gotLists>>

\* Mutant: the assignee is not checked.
completeCheck_Anyone(user, choreID) ==
    IF choreID \notin DOMAIN chores THEN "chore not found"
    ELSE IF chores[choreID].Status # StatusPending THEN "chore is not pending"
    ELSE Nil

\* The checks of CompleteChore: the error it returns, Nil when it goes on.
completeCheck(user, choreID) ==
    IF choreID \notin DOMAIN chores THEN "chore not found"
    ELSE IF chores[choreID].Assignee # user THEN "unauthorized to complete this chore"
    ELSE IF chores[choreID].Status # StatusPending THEN "chore is not pending"
    ELSE Nil

CompleteChore(user, choreID) ==
    /\ storeCall' = StoreCall("CompleteChore", user, choreID, FALSE,
                              completeCheck(user, choreID))
    /\ IF completeCheck(user, choreID) # Nil
       THEN UNCHANGED chores
       ELSE chores' = [chores EXCEPT ![choreID].Status = StatusCompleted,
                                     ![choreID].CompletedAt = Now]
    /\ UNCHANGED <<lists, arrays, uuids, gotLists>>

\* The checks of VerifyChore.
verifyCheck(user, choreID) ==
    IF choreID \notin DOMAIN chores THEN "chore not found"
    ELSE IF chores[choreID].Assigner # user THEN "unauthorized to verify this chore"
    ELSE IF chores[choreID].Status # StatusCompleted THEN "chore is not completed yet"
    ELSE Nil

\* Mutant: a rejected chore keeps its completion time.
verdict_KeepsCompletedAt(chore, approved) ==
    IF approved
    THEN [chore EXCEPT !.Status = StatusVerified, !.VerifiedAt = Now]
    ELSE [chore EXCEPT !.Status = StatusPending]

\* The end of VerifyChore: the chore approved or rejected.
verdict(chore, approved) ==
    IF approved
    THEN [chore EXCEPT !.Status = StatusVerified, !.VerifiedAt = Now]
    ELSE [chore EXCEPT !.Status = StatusPending, !.CompletedAt = NilTime]

VerifyChore(user, choreID, approved) ==
    /\ storeCall' = StoreCall("VerifyChore", user, choreID, approved,
                              verifyCheck(user, choreID))
    /\ IF verifyCheck(user, choreID) # Nil
       THEN UNCHANGED chores
       ELSE chores' = [chores EXCEPT ![choreID] = verdict(@, approved)]
    /\ UNCHANGED <<lists, arrays, uuids, gotLists>>

CreateList(user, name) ==
    /\ uuids < MaxListIDs
    /\ uuids' = uuids + 1
    /\ lists' = Put(lists, newID(uuids + 1), List(newID(uuids + 1), name, user, EmptySlice))
    /\ UNCHANGED <<chores, arrays, storeCall, gotLists>>

\* *l: the copy of a list that GetLists appends to its result.  The slice
\* Items is copied, the array it points into is not.
copyOf(l) == l

\* The loop of GetLists over the map, iterated in the given order.
RECURSIVE getLoop(_)
getLoop(order) ==
    IF order = <<>> THEN <<>> ELSE <<copyOf(lists[Head(order)])>> \o getLoop(Tail(order))

GetLists(user, order) ==
    /\ gotLists' = [called |-> TRUE, user |-> user, result |-> getLoop(order)]
    /\ UNCHANGED <<chores, lists, arrays, uuids, storeCall>>

AddListItem(user, listID, content) ==
    /\ uuids < MaxListIDs
    /\ IF listID \notin DOMAIN lists
       THEN /\ storeCall' = StoreCall("AddListItem", user, listID, FALSE, "list not found")
            /\ UNCHANGED <<lists, arrays, uuids>>
       ELSE /\ storeCall' = StoreCall("AddListItem", user, listID, FALSE, Nil)
            /\ uuids' = uuids + 1
            /\ arrays' = appendItem(arrays, lists[listID].Items,
                                    ListItem(newID(uuids + 1), content, user, FALSE,
                                             "", NilTime)).arrays
            /\ lists' = [lists EXCEPT ![listID].Items =
                            appendItem(arrays, @,
                                       ListItem(newID(uuids + 1), content, user, FALSE,
                                                "", NilTime)).slice]
    /\ UNCHANGED <<chores, gotLists>>

\* The loop of UpdateListItem: the position of the item, 0 when it is not in
\* the list.
itemIndex(items, itemID) ==
    IF \E i \in 1..Len(items) : items[i].ID = itemID
    THEN CHOOSE i \in 1..Len(items) :
             items[i].ID = itemID /\ \A j \in 1..(i - 1) : items[j].ID # itemID
    ELSE 0

updateItem(item, user, completed) ==
    IF completed
    THEN [item EXCEPT !.Completed = TRUE, !.CompletedAt = Now, !.CompletedBy = user]
    ELSE [item EXCEPT !.Completed = FALSE, !.CompletedAt = NilTime, !.CompletedBy = ""]

UpdateListItem(user, listID, itemID, completed) ==
    /\ IF listID \notin DOMAIN lists
       THEN /\ storeCall' = StoreCall("UpdateListItem", user, listID, completed,
                                      "list not found")
            /\ UNCHANGED arrays
       ELSE IF itemIndex(elems(arrays, lists[listID].Items), itemID) = 0
       THEN /\ storeCall' = StoreCall("UpdateListItem", user, listID, completed,
                                      "item not found")
            /\ UNCHANGED arrays
       ELSE /\ storeCall' = StoreCall("UpdateListItem", user, listID, completed, Nil)
            /\ arrays' = [arrays EXCEPT
                             ![lists[listID].Items.array]
                              [itemIndex(elems(arrays, lists[listID].Items), itemID)] =
                                 updateItem(@, user, completed)]
    /\ UNCHANGED <<chores, lists, uuids, gotLists>>

\* Mutant: the creator is not checked.
deleteCheck_Anyone(user, listID) == Nil

\* The check of DeleteList on a list that exists.
deleteCheck(user, listID) ==
    IF lists[listID].CreatedBy # user THEN "unauthorized to delete this list" ELSE Nil

DeleteList(user, listID) ==
    /\ IF listID \notin DOMAIN lists
       THEN /\ storeCall' = StoreCall("DeleteList", user, listID, FALSE, Nil)
            /\ UNCHANGED lists
       ELSE IF deleteCheck(user, listID) # Nil
       THEN /\ storeCall' = StoreCall("DeleteList", user, listID, FALSE,
                                      deleteCheck(user, listID))
            /\ UNCHANGED lists
       ELSE /\ storeCall' = StoreCall("DeleteList", user, listID, FALSE, Nil)
            /\ lists' = [id \in DOMAIN lists \ {listID} |-> lists[id]]
    /\ UNCHANGED <<chores, arrays, uuids, gotLists>>

FamilyUsers == {"dad", "kid", "sibling"}

\* Assigner and assignee of the chores assigned: those of the tests, and a
\* chore one gives oneself.
Assignments == {<<"dad", "kid">>, <<"kid", "kid">>}

ListCreators == {"dad", "mom"}

\* The ids the store is called with: those it has given out and one more.
ChoreIDs == {newID(n) : n \in 1..MaxChores} \cup {"no-such-id"}
ListIDs == {newID(n) : n \in 1..MaxListIDs}

NoLists == [called |-> FALSE, user |-> "", result |-> <<>>]

FamilyIdle ==
    /\ chores = <<>>
    /\ lists = <<>>
    /\ arrays = <<>>
    /\ uuids = 0
    /\ storeCall = NoStoreCall
    /\ gotLists = NoLists

ChoresNext ==
    \/ \E p \in Assignments : AssignChore(p[1], p[2], "Clean room")
    \/ \E user \in FamilyUsers, id \in ChoreIDs : CompleteChore(user, id)
    \/ \E user \in FamilyUsers, id \in ChoreIDs, approved \in BOOLEAN :
          VerifyChore(user, id, approved)

ListsNext ==
    \/ \E user \in ListCreators : CreateList(user, "Groceries")
    \/ \E listID \in ListIDs : AddListItem("kid", listID, "Toys")
    \/ \E listID \in ListIDs, itemID \in ListIDs, completed \in BOOLEAN :
          UpdateListItem("mom", listID, itemID, completed)
    \/ \E user \in ListCreators \cup {"kid"}, listID \in ListIDs : DeleteList(user, listID)
    \/ \E user \in {"kid"}, order \in Orders(DOMAIN lists) : GetLists(user, order)

(***************************************************************************)
(* The MCP client manager under concurrent callers: the steps of its       *)
(* operations between the points where they take and release m.mu, and     *)
(* their reads and writes of a server's cmd, Connected and Tools.          *)
(***************************************************************************)
Threads == {"t1", "t2"}

\* Where a caller is: the operation it is in (op, with the server name or
\* workspace it was given), the next step of that operation (pc), and for
\* the operations that range over the map the servers still to visit.
Thread(op, pc, name, todo) == [op |-> op, pc |-> pc, name |-> name, todo |-> todo]

IdleThread == Thread("", "idle", "", <<>>)

\* m.mu: the number of read locks held; the write lock is not taken by the
\* operations followed here.
NewRWMutex == [readers |-> 0, writer |-> FALSE]

Writers == {"ConnectServer", "DisconnectServer"}
Rangers == {"GetAllTools", "GetToolsForWorkspace", "GetServerSummary"}

\* The field of the server a caller at pc is reading or writing, "" when it
\* is at no access.
fieldAt(pc) ==
    IF pc \in {"readConnected", "writeConnected"} THEN "Connected"
    ELSE IF pc \in {"readTools", "writeTools"} THEN "Tools"
    ELSE ""

isWrite(pc) == pc \in {"writeConnected", "writeTools"}

\* The server a caller is at: the one it looked up, or the one its loop has
\* reached.
serverAt(th) == IF th.op \in Rangers THEN Head(th.todo) ELSE th.name

\* Whether another caller is in a write of the field of the server that
\* caller t is reading.
writtenMeanwhile(t) ==
    \E u \in Threads \ {t} :
        /\ isWrite(threads[u].pc)
        /\ fieldAt(threads[u].pc) = fieldAt(threads[t].pc)
        /\ serverAt(threads[u]) = serverAt(threads[t])

\* A caller enters an operation.
Call(t, op, name) ==
    /\ ~crashed
    /\ threads[t].pc = "idle"
    /\ threads' = [threads EXCEPT ![t] =
                      Thread(op, IF op \in Rangers THEN "rlock" ELSE "lookup", name, <<>>)]
    /\ UNCHANGED <<Servers, crashed, mmu>>

\* The first step after the lookup, for a server that is in the map.
afterLookup(op, server) ==
    IF op = "ConnectServer" THEN (IF server.URL # "" THEN "writeConnected" ELSE "writeCmd")
    ELSE IF op = "DisconnectServer" THEN "kill"
    ELSE "readConnected"

\* m.mu.RLock(); server, ok := m.Servers[name]; m.mu.RUnlock(), and the
\* return with "server not found".
Lookup(t) ==
    /\ ~crashed
    /\ threads[t].pc = "lookup"
    /\ ~mmu.writer
    /\ threads' = [threads EXCEPT ![t] =
                      IF threads[t].name \notin DOMAIN Servers
                      THEN IdleThread
                      ELSE [@ EXCEPT !.pc = afterLookup(threads[t].op,
                                                        Servers[threads[t].name])]]
    /\ UNCHANGED <<Servers, crashed, mmu>>

\* connectStdio: server.cmd = cmd
WriteCmd(t) ==
    /\ ~crashed
    /\ threads[t].pc = "writeCmd"
    /\ Servers' = [Servers EXCEPT ![threads[t].name].cmd = "cmd"]
    /\ threads' = [threads EXCEPT ![t].pc = "writeConnected"]
    /\ UNCHANGED <<crashed, mmu>>

\* DisconnectServer: server.cmd.Process.Kill() when cmd is set; the command
\* was never started, so the call panics.
Kill(t) ==
    /\ ~crashed
    /\ threads[t].pc = "kill"
    /\ IF Servers[threads[t].name].cmd # Nil
       THEN /\ crashed' = TRUE
            /\ UNCHANGED threads
       ELSE /\ threads' = [threads EXCEPT ![t].pc = "writeConnected"]
            /\ UNCHANGED crashed
    /\ UNCHANGED <<Servers, mmu>>

\* server.Connected = true in connectStdio and connectHTTP, server.Connected
\* = false in DisconnectServer: the write ends.
WriteConnected(t) ==
    /\ ~crashed
    /\ threads[t].pc = "writeConnected"
    /\ Servers' = [Servers EXCEPT
                      ![threads[t].name].Connected = (threads[t].op = "ConnectServer")]
    /\ threads' = [threads EXCEPT ![t] =
                      IF @.op = "ConnectServer" THEN [@ EXCEPT !.pc = "writeTools"]
                      ELSE IdleThread]
    /\ UNCHANGED <<crashed, mmu>>

\* server.Tools = []MCPToolDef{...}: the write ends, and ConnectServer
\* returns.
WriteTools(t) ==
    /\ ~crashed
    /\ threads[t].pc = "writeTools"
    /\ Servers' = [Servers EXCEPT ![threads[t].name] =
                      IF @.URL # "" THEN connectHTTP(@) ELSE connectStdio(@)]
    /\ threads' = [threads EXCEPT ![t] = IdleThread]
    /\ UNCHANGED <<crashed, mmu>>

\* m.mu.RLock() of the operations that range over the map, which then visit
\* the servers in some order.
RLock(t, order) ==
    /\ ~crashed
    /\ threads[t].pc = "rlock"
    /\ ~mmu.writer
    /\ mmu' = [mmu EXCEPT !.readers = @ + 1]
    /\ threads' = [threads EXCEPT ![t] =
                      [@ EXCEPT !.todo = order,
                                !.pc = IF order = <<>> THEN "runlock"
                                       ELSE IF threads[t].op = "GetServerSummary"
                                       THEN "readTools"
                                       ELSE "readConnected"]]
    /\ UNCHANGED <<Servers, crashed>>

\* The loop goes on to the next server, or leaves the loop.
nextServer(th) ==
    IF Len(th.todo) > 1
    THEN [th EXCEPT !.todo = Tail(@),
                    !.pc = IF th.op = "GetServerSummary" THEN "readTools"
                           ELSE "readConnected"]
    ELSE [th EXCEPT !.todo = <<>>, !.pc = "runlock"]

\* The read of server.Connected ends with the value connected: the one
\* stored, or either value while another caller is writing it.  CallTool
\* returns after it; GetAllTools and GetToolsForWorkspace go on to the
\* tools of a connected server.
ReadConnected(t, connected) ==
    /\ ~crashed
    /\ threads[t].pc = "readConnected"
    /\ writtenMeanwhile(t) \/ connected = Servers[serverAt(threads[t])].Connected
    /\ threads' = [threads EXCEPT ![t] =
                      IF @.op = "CallTool" THEN IdleThread
                      ELSE IF connected THEN [@ EXCEPT !.pc = "readTools"]
                      ELSE nextServer(@)]
    /\ UNCHANGED <<Servers, crashed, mmu>>

\* The read of server.Tools ends.
ReadTools(t) ==
    /\ ~crashed
    /\ threads[t].pc = "readTools"
    /\ threads' = [threads EXCEPT ![t] = nextServer(@)]
    /\ UNCHANGED <<Servers, crashed, mmu>>

\* The deferred m.mu.RUnlock(), and the return.
RUnlock(t) ==
    /\ ~crashed
    /\ threads[t].pc = "runlock"
    /\ mmu' = [mmu EXCEPT !.readers = @ - 1]
    /\ threads' = [threads EXCEPT ![t] = IdleThread]
    /\ UNCHANGED <<Servers, crashed>>

\* The managers the callers share: one server registered with AddServer, a
\* stdio server or an HTTP server.
SharedManagers ==
    {Put(NewManager, c.Name, [NewServer(c) EXCEPT !.Connected = TRUE]) :
        c \in {c \in Configs : c.Name = "fs" /\ c.ToolAllowList = <<>>
                               /\ c.ToolDenyList = <<>> /\ c.WorkspaceAllowList = <<>>
                               /\ c.WorkspaceDenyList = <<>>}}

LockIdle ==
    /\ mmu = NewRWMutex
    /\ threads = [t \in Threads |-> IdleThread]

LockInit ==
    /\ Servers \in SharedManagers
    /\ crashed = FALSE
    /\ LockIdle

LockNext ==
    \/ \E t \in Threads, op \in Writers \cup {"CallTool"}, name \in ServerNames :
          Call(t, op, name)
    \/ \E t \in Threads, op \in Rangers : Call(t, op, "w1")
    \/ \E t \in Threads : Lookup(t)
    \/ \E t \in Threads : WriteCmd(t)
    \/ \E t \in Threads : Kill(t)
    \/ \E t \in Threads : WriteConnected(t)
    \/ \E t \in Threads : WriteTools(t)
    \/ \E t \in Threads, order \in Orders(DOMAIN Servers) : RLock(t, order)
    \/ \E t \in Threads, connected \in BOOLEAN : ReadConnected(t, connected)
    \/ \E t \in Threads : ReadTools(t)
    \/ \E t \in Threads : RUnlock(t)

(***************************************************************************)
(* The configuration the schedule provider resolves providers with         *)
(* (ScheduleProvider.resolveProvider, GetID and GetDefaultModel).  The     *)
(* declarations of package config are not among the sources: Config is     *)
(* modelled as far as resolveProvider uses it, with Agents held by value,  *)
(* as the specification's shallow clone that leaves the original alone.    *)
(***************************************************************************)
\* Bound: the calls of the schedule provider that are recorded.
MaxResolves == 3

\* config.Config as far as resolveProvider writes it: Agents.Defaults.
Config(provider, modelName) ==
    [Agents |-> [Defaults |-> [Provider |-> provider, ModelName |-> modelName]]]

\* The composite literal of resolveProvider: every field of the clone is
\* assigned from the original.
cfgClone(orig) == [Agents |-> orig.Agents]

\* The two assignments to the clone.
setDefaults(clone, targetModelName, providerType) ==
    [clone EXCEPT !.Agents.Defaults.ModelName = targetModelName,
                  !.Agents.Defaults.Provider = providerType]

\* Mutant: Agents is shared between the clone and the original.
afterAssign_Shared(orig, clone) == [orig EXCEPT !.Agents = clone.Agents]

\* The original configuration once the clone's defaults have been assigned:
\* Agents was copied by value, so the original keeps its own.
afterAssign(orig, clone) == orig

\* The configuration resolveProvider hands to CreateProvider at instant t.
createdWith(orig, t) ==
    LET sel == selectRule(t)
    IN  setDefaults(cfgClone(orig),
                    IF sel.model = "" THEN sel.providerType ELSE sel.model,
                    sel.providerType)

\* Whether resolveProvider gets as far as the clone.
clones(t) == ~HasPrefix(selectRule(t).providerType, "schedule")

InnerID == "inner-id"

\* What GetID returns.
idOf(r) ==
    IF r.err # Nil \/ r.provider.isNil
    THEN "schedule:" \o schedule.Default.Provider
    ELSE InnerID

\* What GetDefaultModel returns.
defaultModelOf(r) ==
    IF r.err # Nil \/ r.provider.isNil THEN "schedule-error"
    ELSE IF r.model # "" THEN r.model
    ELSE DefaultModel

\* One recorded call: created holds the configuration CreateProvider was
\* handed, if it was called.
Resolve(op, created, ret) == [op |-> op, created |-> created, ret |-> ret]

\* The part of every call that goes through resolveProvider.
resolved(op, ret) ==
    /\ Len(resolves) < MaxResolves
    /\ resolves' = Append(resolves,
                     Resolve(op, IF clones(now) THEN <<createdWith(pcfg, now)>> ELSE <<>>, ret))
    /\ pcfg' = IF clones(now) THEN afterAssign(pcfg, createdWith(pcfg, now)) ELSE pcfg

\* ScheduleProvider.Chat, with the configuration it resolves under.
ChatWith(model, createFails, resolvedModelID) ==
    /\ Chat(model, createFails, resolvedModelID)
    /\ resolved("Chat", chat'.err)

\* ScheduleProvider.GetID.
GetID(createFails, resolvedModelID) ==
    /\ resolved("GetID", idOf(resolveProvider(now, createFails, resolvedModelID)))
    /\ UNCHANGED schedVars

\* ScheduleProvider.GetDefaultModel.
GetDefaultModel(createFails, resolvedModelID) ==
    /\ resolved("GetDefaultModel",
                defaultModelOf(resolveProvider(now, createFails, resolvedModelID)))
    /\ UNCHANGED schedVars

\* Inputs: the defaults of the original configuration, schedules of at most
\* one rule for every day, and a morning and a late evening.
OriginalConfigs == {Config("schedule", "m9"), Config("p1", "m1")}
ConfigSchedules ==
    {s \in OrderedSchedules : Len(s.Rules) <= 1 /\ \A i \in 1..Len(s.Rules) : s.Rules[i].Days = <<>>}
ConfigInstants == {Instant(1, <<10, 0>>), Instant(1, <<23, 30>>)}

ConfigIdle ==
    /\ pcfg = Config("schedule", "m9")
    /\ resolves = <<>>

ConfigInit ==
    /\ schedule \in ConfigSchedules
    /\ location = 0
    /\ now \in ConfigInstants
    /\ chat = NoChat
    /\ pcfg \in OriginalConfigs
    /\ resolves = <<>>

ConfigNext ==
    \E createFails \in BOOLEAN, id \in ResolvedModelIDs :
        \/ \E model \in ChatModels : ChatWith(model, createFails, id)
        \/ GetID(createFails, id)
        \/ GetDefaultModel(createFails, id)

(***************************************************************************)
(* The orchestrator's MCP server: the loop of main over the lines of its   *)
(* standard input, and the handlers it dispatches to.                      *)
(***************************************************************************)
\* Bound: the lines written to the server.
MaxLines == 3

\* bufio.MaxScanTokenSize, the buffer a Scanner made by NewScanner grows to.
MaxScanTokenSize == 65536

\* A JSON number that is a non-negative integer is held as its decimal
\* digits, most significant first and without leading zeros.
RECURSIVE stripZeros(_)
stripZeros(ds) ==
    IF Len(ds) > 1 /\ ds[1] = 0 THEN stripZeros(Tail(ds)) ELSE ds

\* n mod m, for a small m.
RECURSIVE modDigits(_, _)
modDigits(ds, m) ==
    IF ds = <<>> THEN 0
    ELSE (modDigits(SubSeq(ds, 1, Len(ds) - 1), m) * 10 + ds[Len(ds)]) % m

\* n + d for a small d of either sign.
RECURSIVE addSmall(_, _)
addSmall(ds, d) ==
    IF d = 0 THEN ds
    ELSE IF ds = <<>> THEN addSmall(<<0>>, d)
    ELSE addSmall(SubSeq(ds, 1, Len(ds) - 1),
                  (ds[Len(ds)] + d - ((ds[Len(ds)] + d) % 10)) \div 10)
             \o <<(ds[Len(ds)] + d) % 10>>

addDigits(ds, d) == stripZeros(addSmall(ds, d))

\* a < b
RECURSIVE lessDigits(_, _)
lessDigits(a, b) ==
    IF Len(a) # Len(b) THEN Len(a) < Len(b)
    ELSE IF a = <<>> THEN FALSE
    ELSE IF a[1] # b[1] THEN a[1] < b[1]
    ELSE lessDigits(Tail(a), Tail(b))

\* 2^53 to 2^63, by k - 52.
PowersOfTwo ==
    <<<<9, 0, 0, 7, 1, 9, 9, 2, 5, 4, 7, 4, 0, 9, 9, 2>>,
      <<1, 8, 0, 1, 4, 3, 9, 8, 5, 0, 9, 4, 8, 1, 9, 8, 4>>,
      <<3, 6, 0, 2, 8, 7, 9, 7, 0, 1, 8, 9, 6, 3, 9, 6, 8>>,
      <<7, 2, 0, 5, 7, 5, 9, 4, 0, 3, 7, 9, 2, 7, 9, 3, 6>>,
      <<1, 4, 4, 1, 1, 5, 1, 8, 8, 0, 7, 5, 8, 5, 5, 8, 7, 2>>,
      <<2, 8, 8, 2, 3, 0, 3, 7, 6, 1, 5, 1, 7, 1, 1, 7, 4, 4>>,
      <<5, 7, 6, 4, 6, 0, 7, 5, 2, 3, 0, 3, 4, 2, 3, 4, 8, 8>>,
      <<1, 1, 5, 2, 9, 2, 1, 5, 0, 4, 6, 0, 6, 8, 4, 6, 9, 7, 6>>,
      <<2, 3, 0, 5, 8, 4, 3, 0, 0, 9, 2, 1, 3, 6, 9, 3, 9, 5, 2>>,
      <<4, 6, 1, 1, 6, 8, 6, 0, 1, 8, 4, 2, 7, 3, 8, 7, 9, 0, 4>>,
      <<9, 2, 2, 3, 3, 7, 2, 0, 3, 6, 8, 5, 4, 7, 7, 5, 8, 0, 8>>>>

twoTo(k) == PowersOfTwo[k - 52]

\* The binary exponent of n, from 52 (anything below 2^53) to 63.
RECURSIVE exponent(_, _)
exponent(ds, k) ==
    IF k = 63 THEN k
    ELSE IF lessDigits(ds, twoTo(k + 1)) THEN k
    ELSE exponent(ds, k + 1)

\* The distance between the float64 values around n: 1 below 2^53.
ulp(ds) == pow2(exponent(ds, 52) - 52)

\* Whether n is an even multiple of its ulp.
evenMantissa(ds) == modDigits(ds, 2 * ulp(ds)) = 0

\* float64(n): the nearest value that 53 bits of mantissa hold, the even one
\* of two that are equally near.
toFloat64(ds) ==
    IF modDigits(ds, ulp(ds)) * 2 < ulp(ds)
       \/ (modDigits(ds, ulp(ds)) * 2 = ulp(ds)
              /\ modDigits(ds, 2 * ulp(ds)) = modDigits(ds, ulp(ds)))
    THEN addDigits(ds, -modDigits(ds, ulp(ds)))
    ELSE addDigits(ds, ulp(ds) - modDigits(ds, ulp(ds)))

\* The value of a few digits, 100000 when they are more than four (leading
\* zeros aside).
RECURSIVE smallValue(_)
smallValue(ds) ==
    IF ds = <<>> THEN 0
    ELSE IF Len(stripZeros(ds)) > 4 THEN 100000
    ELSE smallValue(SubSeq(ds, 1, Len(ds) - 1)) * 10 + ds[Len(ds)]

\* How far f is above the multiple of 10^k below it, and below the one above.
downTo(f, k) == smallValue(SubSeq(f, Len(f) - k + 1, Len(f)))
upTo(f, k) ==
    IF downTo(f, k) = 0 THEN 0
    ELSE smallValue([i \in 1..k |-> 9 - f[Len(f) - k + i]]) + 1

\* Whether a decimal d below (above) the float64 f still reads back as f.
readsBackBelow(f, d) ==
    IF ulp(f) > 1 /\ f = twoTo(exponent(f, 52))
    THEN 4 * d < ulp(f) \/ 4 * d = ulp(f)
    ELSE 2 * d < ulp(f) \/ (2 * d = ulp(f) /\ evenMantissa(f))

readsBackAbove(f, d) == 2 * d < ulp(f) \/ (2 * d = ulp(f) /\ evenMantissa(f))

\* Whether a multiple of 10^k reads back as f.
hasShort(f, k) == readsBackBelow(f, downTo(f, k)) \/ readsBackAbove(f, upTo(f, k))

\* The most zeros the decimal of f can end in.
RECURSIVE shortestK(_, _)
shortestK(f, k) == IF k = 0 \/ hasShort(f, k) THEN k ELSE shortestK(f, k - 1)

\* strconv's shortest formatting of the float64 f, an integer below 1e21:
\* the decimal of the fewest significant digits that reads back as f, the
\* nearest to f of those.
formatFloat(f) ==
    IF readsBackBelow(f, downTo(f, shortestK(f, Len(f) - 1)))
       /\ (~readsBackAbove(f, upTo(f, shortestK(f, Len(f) - 1)))
              \/ downTo(f, shortestK(f, Len(f) - 1)) <= upTo(f, shortestK(f, Len(f) - 1)))
    THEN addDigits(f, -downTo(f, shortestK(f, Len(f) - 1)))
    ELSE addDigits(f, upTo(f, shortestK(f, Len(f) - 1)))

\* The JSON value of an "id": a number (a non-negative integer, by its
\* digits) or a string.
NumberID(digits) == [type |-> "number", digits |-> digits, text |-> ""]
StringID(text) == [type |-> "string", digits |-> <<>>, text |-> text]

\* A line of the standard input: its length in bytes, whether it is the JSON
\* of an object, and the members "id", "method" and "params" (name and
\* arguments) it is written with.
Line(size, valid, id, method, name, arguments) ==
    [size |-> size, valid |-> valid, id |-> id, method |-> method, name |-> name,
     arguments |-> arguments]

\* json.Unmarshal into the interface{} field ID: a number becomes a float64
\* (held by its exact value), a string stays.
decodeID(id) == IF id.type = "number" THEN NumberID(toFloat64(id.digits)) ELSE id

\* json.Marshal of the field ID: a float64 is written in its shortest
\* decimal.
encodeID(id) == IF id.type = "number" THEN NumberID(formatFloat(id.digits)) ELSE id

JSONRPCRequest(id, method, name, arguments) ==
    [ID |-> id, Method |-> method, Params |-> [Name |-> name, Arguments |-> arguments]]

\* json.Unmarshal(line, &req)
Unmarshal(line) ==
    IF ~line.valid
    THEN [err |-> TRUE, req |-> JSONRPCRequest(StringID(""), "", "", <<>>)]
    ELSE [err |-> FALSE,
          req |-> JSONRPCRequest(decodeID(line.id), line.method, line.name, line.arguments)]

JSONRPCError(code, message) == [isNil |-> FALSE, Code |-> code, Message |-> message]

NilError == [isNil |-> TRUE, Code |-> 0, Message |-> ""]

\* The Result of a response: of which kind, and for a CallToolResult the
\* text of its one content item (for list_messages the messages the text is
\* the JSON of) and IsError.
Result(kind, text, messages, isError) ==
    [kind |-> kind, Text |-> text, Messages |-> messages, IsError |-> isError]

EmptyResult == Result("", "", <<>>, FALSE)

JSONRPCResponse(id, result, error) == [ID |-> id, Result |-> result, Error |-> error]

\* json.Marshal(resp), as the line fmt.Println writes.
Marshal(resp) == [resp EXCEPT !.ID = encodeID(@)]

handleInitialize(req) ==
    JSONRPCResponse(req.ID, Result("InitializeResult", "", <<>>, FALSE), NilError)

handleToolsList(req) ==
    JSONRPCResponse(req.ID, Result("ToolsListResult", "", <<>>, FALSE), NilError)

\* params.Arguments[key].(string): the empty string when the key is absent.
argument(arguments, key) == IF key \in DOMAIN arguments THEN arguments[key] ELSE ""

\* The response of handleToolsCall; listed is what ListMessages returned
\* and sentID the id SendMessage returned, when they were called.
toolsCallResponse(req, sentID, listed) ==
    JSONRPCResponse(req.ID,
        IF req.Params.Name = "send_message"
        THEN Result("CallToolResult", "Message sent with ID: " \o sentID, <<>>, FALSE)
        ELSE IF req.Params.Name = "list_messages"
        THEN Result("CallToolResult", "", listed, FALSE)
        ELSE Result("CallToolResult", "Unknown tool " \o req.Params.Name, <<>>, TRUE),
        NilError)

\* handleToolsCall, with the calls of the mailbox it makes; order is the
\* order the map of the mailbox is iterated in.
handleToolsCall(req, order) ==
    /\ IF req.Params.Name = "send_message"
       THEN SendMessage(argument(req.Params.Arguments, "from"),
                        argument(req.Params.Arguments, "to"),
                        argument(req.Params.Arguments, "content"))
       ELSE IF req.Params.Name = "list_messages"
       THEN ListMessages(argument(req.Params.Arguments, "user"), order)
       ELSE UNCHANGED mailVars
    /\ stdout' = Append(stdout, Marshal(toolsCallResponse(req, newID(sent + 1),
                                                          listing'.result)))

\* The default case of main's switch.
methodNotFound(req) ==
    JSONRPCResponse(req.ID, EmptyResult, JSONRPCError(-32601, "Method not found"))

\* The switch of main on the method, and the response printed.
dispatch(req, order) ==
    IF req.Method = "initialize"
    THEN stdout' = Append(stdout, Marshal(handleInitialize(req))) /\ UNCHANGED mailVars
    ELSE IF req.Method = "tools/list"
    THEN stdout' = Append(stdout, Marshal(handleToolsList(req))) /\ UNCHANGED mailVars
    ELSE IF req.Method = "tools/call"
    THEN handleToolsCall(req, order)
    ELSE stdout' = Append(stdout, Marshal(methodNotFound(req))) /\ UNCHANGED mailVars

\* One turn of main's loop on the next line written to the standard input.
\* scanner.Scan returns false on a line that does not fit the buffer, and
\* main returns.
Scan(line, order) ==
    /\ ~stopped
    /\ Len(stdin) < MaxLines
    /\ stdin' = Append(stdin, line)
    /\ IF line.size >= MaxScanTokenSize
       THEN stopped' = TRUE /\ UNCHANGED <<stdout, mailVars>>
       ELSE /\ UNCHANGED stopped
            /\ IF Unmarshal(line).err
               THEN UNCHANGED <<stdout, mailVars>>
               ELSE dispatch(Unmarshal(line).req, order)

\* Inputs: ids as the tests write them, as a string, and as the client of
\* this repository generates them (time.Now().UnixNano()).
UnixNanoID == NumberID(<<1, 7, 6, 2, 3, 2, 6, 0, 0, 0, 1, 2, 3, 4, 5, 6, 7, 8, 9>>)
RequestIDs == {NumberID(<<1>>), StringID("a"), UnixNanoID}

SendArguments == [from |-> "dad", to |-> "kid", content |-> "Clean your room"]
ListArguments == [user |-> "kid"]
NoArguments == <<>>

RequestLine(size, id, method, name, arguments) == Line(size, TRUE, id, method, name, arguments)

\* A line that is not JSON.
Garbage(size) == Line(size, FALSE, StringID(""), "", "", NoArguments)

Lines ==
    {RequestLine(60, id, "initialize", "", NoArguments) : id \in RequestIDs}
    \cup {RequestLine(60, NumberID(<<1>>), method, "", NoArguments) :
             method \in {"tools/list", "ping"}}
    \cup {RequestLine(120, NumberID(<<1>>), "tools/call", "send_message", SendArguments),
          RequestLine(MaxScanTokenSize + 100, NumberID(<<1>>), "tools/call", "send_message",
                  SendArguments),
          RequestLine(90, NumberID(<<1>>), "tools/call", "list_messages", ListArguments),
          RequestLine(90, StringID("a"), "tools/call", "read_message", NoArguments),
          Garbage(10)}

RpcIdle ==
    /\ stdin = <<>>
    /\ stdout = <<>>
    /\ stopped = FALSE

RpcNext ==
    \E line \in Lines, order \in Orders(DOMAIN mailbox) : Scan(line, order)

(***************************************************************************)
(* The same text checked by filters of different levels and users.        *)
(***************************************************************************)
\* A call of CheckContent with the filter it was made on.
Checked(called, level, birthYear, content, blocked) ==
    [called |-> called, level |-> level, birthYear |-> birthYear, content |-> content,
     blocked |-> blocked]

NotChecked == Checked(FALSE, "", 0, "", FALSE)

\* NewFilter for another level or user: the filter that is asked next.
UseFilter(level, birthYear) ==
    /\ filter # NewFilter(level, birthYear)
    /\ filter' = NewFilter(level, birthYear)
    /\ UNCHANGED <<year, safety, checked>>

\* Filter.CheckContent, kept with the call before it.
CheckContentOn(content) ==
    /\ CheckContent(content)
    /\ checked' = [last |-> Checked(TRUE, filter.level, filter.birthYear, content,
                                    safety'.blocked),
                   prior |-> checked.last]

\* Inputs: the four levels, a user of unknown age, an adult and one who is
\* 12 in the first year and 13 in the second, and a text for each keyword
\* list and for none.
FilterLevels == {LevelOff, LevelLow, LevelMedium, LevelHigh}
FilterBirthYears == {0, 1990, 2014}
LevelContents ==
    {"Violence and weapons", "how to make a BOMB", "Dating advice", "how to cook pasta"}

LevelsIdle == checked = [last |-> NotChecked, prior |-> NotChecked]

LevelsInit ==
    /\ filter \in {NewFilter(level, birthYear) :
                      level \in FilterLevels, birthYear \in FilterBirthYears}
    /\ year \in Years
    /\ safety = NoSafetyCall
    /\ LevelsIdle

LevelsNext ==
    \/ \E level \in FilterLevels, birthYear \in FilterBirthYears : UseFilter(level, birthYear)
    \/ \E content \in LevelContents : CheckContentOn(content)

(***************************************************************************)
(* Specifications.                                                         *)
(***************************************************************************)
\* The subsystems modelled after the first three, not in use.
LateIdle == GatewayIdle /\ ToolIdle /\ MetricsIdle /\ MailIdle /\ FamilyIdle /\ LockIdle /\ ConfigIdle /\ RpcIdle /\ LevelsIdle

RestIdle == SafetyIdle /\ MemIdle /\ BufferIdle /\ LateIdle

Init == McpInit /\ SchedIdle /\ FbInit /\ RestIdle

Next == McpNext /\ UNCHANGED <<schedVars, fbVars, restVars>>

Spec == Init /\ [][Next]_vars

\* Only the manager's own operations, from a new manager.
NextApi == McpApi /\ UNCHANGED <<schedVars, fbVars, restVars>>

SpecApi == Init /\ [][NextApi]_vars

\* The schedule provider over ordered schedules of up to MaxRules rules.
InitSchedule ==
    /\ McpInit
    /\ schedule \in OrderedSchedules
    /\ location \in Locations
    /\ now \in OrderedInstants
    /\ chat = NoChat
    /\ FbInit
    /\ RestIdle

NextSchedule == SchedNext /\ UNCHANGED <<mcpVars, fbVars, restVars>>

SpecSchedule == InitSchedule /\ [][NextSchedule]_vars

\* The schedule provider over one rule with any day list and hours.
InitRule ==
    /\ McpInit
    /\ schedule \in OneRuleSchedules
    /\ location \in Locations
    /\ now \in Instants
    /\ chat = NoChat
    /\ FbInit
    /\ RestIdle

NextRule == SchedNext /\ UNCHANGED <<mcpVars, fbVars, restVars>>

SpecRule == InitRule /\ [][NextRule]_vars

\* The fallback chain with its cooldown tracker.
InitFallback == McpInit /\ SchedIdle /\ FbInit /\ RestIdle

NextFallback == FbNext /\ UNCHANGED <<mcpVars, schedVars, restVars>>

SpecFallback == InitFallback /\ [][NextFallback]_vars

\* The safety filter, for every level, birth year and current year.
InitSafety == McpInit /\ SchedIdle /\ FbInit /\ SafetyInit /\ MemIdle /\ BufferIdle /\ LateIdle

NextSafety == SafetyNext /\ UNCHANGED <<mcpVars, schedVars, fbVars, memVars, bufferVars, lateVars>>

SpecSafety == InitSafety /\ [][NextSafety]_vars

\* Archival into an empty collection, with failing external calls.
InitArchive == McpInit /\ SchedIdle /\ FbInit /\ SafetyIdle /\ ArchiveInit /\ BufferIdle /\ LateIdle

NextArchive == ArchiveNext /\ UNCHANGED <<mcpVars, schedVars, fbVars, safetyVars, bufferVars, lateVars>>

SpecArchive == InitArchive /\ [][NextArchive]_vars

\* The two searches over archived collections.
InitSearch == McpInit /\ SchedIdle /\ FbInit /\ SafetyIdle /\ SearchInit /\ BufferIdle /\ LateIdle

NextSearch == SearchNext /\ UNCHANGED <<mcpVars, schedVars, fbVars, safetyVars, bufferVars, lateVars>>

SpecSearch == InitSearch /\ [][NextSearch]_vars

\* Concurrent callers of Add on a new activity buffer.
InitBuffer == McpInit /\ SchedIdle /\ FbInit /\ SafetyIdle /\ MemIdle /\ BufferInit /\ LateIdle

NextBuffer == BufferNext /\ UNCHANGED <<mcpVars, schedVars, fbVars, safetyVars, memVars, lateVars>>

SpecBuffer == InitBuffer /\ [][NextBuffer]_vars

\* The subsystems modelled first, not in use.
EarlyIdle == McpInit /\ SchedIdle /\ FbInit /\ SafetyIdle /\ MemIdle /\ BufferIdle

\* One webhook request against each configuration.
InitWebhook ==
    EarlyIdle /\ WebhookInit
    /\ ToolIdle
    /\ MetricsIdle
    /\ MailIdle
    /\ FamilyIdle
    /\ LockIdle
    /\ ConfigIdle
    /\ RpcIdle
    /\ LevelsIdle

NextWebhook ==
    WebhookNext /\ UNCHANGED <<earlyVars, toolVars, metricsVars, mailVars, familyVars, lockVars, configVars, rpcVars, levelVars>>

SpecWebhook == InitWebhook /\ [][NextWebhook]_vars

\* Webhook deliveries under configurations that change between them.
InitSession ==
    EarlyIdle /\ WebhookInit
    /\ ToolIdle
    /\ MetricsIdle
    /\ MailIdle
    /\ FamilyIdle
    /\ LockIdle
    /\ ConfigIdle
    /\ RpcIdle
    /\ LevelsIdle

NextSession ==
    SessionNext /\ UNCHANGED <<earlyVars, toolVars, metricsVars, mailVars, familyVars, lockVars, configVars, rpcVars, levelVars>>

SpecSession == InitSession /\ [][NextSession]_vars

\* Heartbeats through the handler of the gateway.
InitHeartbeat ==
    EarlyIdle /\ HeartbeatInit
    /\ ToolIdle
    /\ MetricsIdle
    /\ MailIdle
    /\ FamilyIdle
    /\ LockIdle
    /\ ConfigIdle
    /\ RpcIdle
    /\ LevelsIdle

NextHeartbeat ==
    HeartbeatNext /\ UNCHANGED <<earlyVars, toolVars, metricsVars, mailVars, familyVars, lockVars, configVars, rpcVars, levelVars>>

SpecHeartbeat == InitHeartbeat /\ [][NextHeartbeat]_vars

\* Calls of MCP tools while the manager's servers come and go.
InitTool ==
    EarlyIdle /\ ToolIdle
    /\ GatewayIdle
    /\ MetricsIdle
    /\ MailIdle
    /\ FamilyIdle
    /\ LockIdle
    /\ ConfigIdle
    /\ RpcIdle
    /\ LevelsIdle

NextTool ==
    \/ ToolNext /\ UNCHANGED <<earlyVars, gatewayVars, metricsVars, mailVars, familyVars, lockVars, configVars, rpcVars, levelVars>>
    \/ ToolServers /\ UNCHANGED <<schedVars, fbVars, restVars>>

SpecTool == InitTool /\ [][NextTool]_vars

\* Calls of the tools of the catalog, for servers registered with their tools.
InitRouting ==
    EarlyIdle /\ ToolIdle
    /\ GatewayIdle
    /\ MetricsIdle
    /\ MailIdle
    /\ FamilyIdle
    /\ LockIdle
    /\ ConfigIdle
    /\ RpcIdle
    /\ LevelsIdle

NextRouting ==
    \/ RoutingNext /\ UNCHANGED <<earlyVars, gatewayVars, metricsVars, mailVars, familyVars, lockVars, configVars, rpcVars, levelVars>>
    \/ RoutingServers /\ UNCHANGED <<schedVars, fbVars, restVars>>

SpecRouting == InitRouting /\ [][NextRouting]_vars

\* Chats through the metrics decorator.
InitMetrics ==
    EarlyIdle /\ MetricsIdle
    /\ GatewayIdle
    /\ ToolIdle
    /\ MailIdle
    /\ FamilyIdle
    /\ LockIdle
    /\ ConfigIdle
    /\ RpcIdle
    /\ LevelsIdle

NextMetrics ==
    MetricsNext /\ UNCHANGED <<earlyVars, gatewayVars, toolVars, mailVars, familyVars, lockVars, configVars, rpcVars, levelVars>>

SpecMetrics == InitMetrics /\ [][NextMetrics]_vars

\* Users sending, listing and reading messages.
InitMailbox ==
    EarlyIdle /\ MailIdle
    /\ GatewayIdle
    /\ ToolIdle
    /\ MetricsIdle
    /\ FamilyIdle
    /\ LockIdle
    /\ ConfigIdle
    /\ RpcIdle
    /\ LevelsIdle

NextMailbox ==
    MailNext /\ UNCHANGED <<earlyVars, gatewayVars, toolVars, metricsVars, familyVars, lockVars, configVars, rpcVars, levelVars>>

SpecMailbox == InitMailbox /\ [][NextMailbox]_vars

\* Chores assigned, completed and verified.
InitChores ==
    EarlyIdle /\ FamilyIdle
    /\ GatewayIdle
    /\ ToolIdle
    /\ MetricsIdle
    /\ MailIdle
    /\ LockIdle
    /\ ConfigIdle
    /\ RpcIdle
    /\ LevelsIdle

NextChores ==
    ChoresNext /\ UNCHANGED <<earlyVars, gatewayVars, toolVars, metricsVars, mailVars, lockVars, configVars, rpcVars, levelVars>>

SpecChores == InitChores /\ [][NextChores]_vars

\* Shared lists created, filled, updated and deleted.
InitLists ==
    EarlyIdle /\ FamilyIdle
    /\ GatewayIdle
    /\ ToolIdle
    /\ MetricsIdle
    /\ MailIdle
    /\ LockIdle
    /\ ConfigIdle
    /\ RpcIdle
    /\ LevelsIdle

NextLists ==
    ListsNext /\ UNCHANGED <<earlyVars, gatewayVars, toolVars, metricsVars, mailVars, lockVars, configVars, rpcVars, levelVars>>

SpecLists == InitLists /\ [][NextLists]_vars

\* Two callers of the manager, step by step.
InitLock ==
    SchedIdle /\ FbInit /\ SafetyIdle /\ MemIdle /\ BufferIdle /\ LockInit
    /\ GatewayIdle
    /\ ToolIdle
    /\ MetricsIdle
    /\ MailIdle
    /\ FamilyIdle
    /\ ConfigIdle
    /\ RpcIdle
    /\ LevelsIdle

NextLock ==
    LockNext /\ UNCHANGED <<schedVars, fbVars, safetyVars, memVars, bufferVars, gatewayVars, toolVars, metricsVars, mailVars, familyVars, configVars, rpcVars, levelVars>>

SpecLock == InitLock /\ [][NextLock]_vars

\* Calls of the schedule provider under its configuration.
InitConfig ==
    McpInit /\ FbInit /\ SafetyIdle /\ MemIdle /\ BufferIdle /\ ConfigInit
    /\ GatewayIdle
    /\ ToolIdle
    /\ MetricsIdle
    /\ MailIdle
    /\ FamilyIdle
    /\ LockIdle
    /\ RpcIdle
    /\ LevelsIdle

NextConfig ==
    ConfigNext /\ UNCHANGED <<mcpVars, fbVars, safetyVars, memVars, bufferVars, gatewayVars, toolVars, metricsVars, mailVars, familyVars, lockVars, rpcVars, levelVars>>

SpecConfig == InitConfig /\ [][NextConfig]_vars

\* Lines served by the orchestrator's MCP server.
InitRpc ==
    EarlyIdle /\ RpcIdle
    /\ GatewayIdle
    /\ ToolIdle
    /\ MetricsIdle
    /\ MailIdle
    /\ FamilyIdle
    /\ LockIdle
    /\ ConfigIdle
    /\ LevelsIdle

NextRpc ==
    RpcNext /\ UNCHANGED <<earlyVars, gatewayVars, toolVars, metricsVars, familyVars, lockVars, configVars, levelVars>>

SpecRpc == InitRpc /\ [][NextRpc]_vars

\* A text checked by filters of different levels and users.
InitLevels ==
    McpInit /\ SchedIdle /\ FbInit /\ MemIdle /\ BufferIdle /\ LevelsInit
    /\ GatewayIdle
    /\ ToolIdle
    /\ MetricsIdle
    /\ MailIdle
    /\ FamilyIdle
    /\ LockIdle
    /\ ConfigIdle
    /\ RpcIdle

NextLevels ==
    LevelsNext /\ UNCHANGED <<mcpVars, schedVars, fbVars, memVars, bufferVars, gatewayVars, toolVars, metricsVars, mailVars, familyVars, lockVars, configVars, rpcVars>>

SpecLevels == InitLevels /\ [][NextLevels]_vars

(***************************************************************************)
(* Claims about the MCP tool catalog.                                      *)
(***************************************************************************)
MapOrders == Orders(DOMAIN Servers)

\* The allow/deny rule as the specification words it.
ToolPasses(s, t) ==
    IF s.ToolAllowList # <<>>
    THEN t \in Range(s.ToolAllowList)
    ELSE t \notin Range(s.ToolDenyList)

Admits(s, w) ==
    \/ s.WorkspaceAllowList # <<>> /\ w \in Range(s.WorkspaceAllowList)
    \/ s.WorkspaceAllowList = <<>> /\ w \notin Range(s.WorkspaceDenyList)

\* C1: every tool returned by GetAllTools() is the prefixed name of a tool of
\* a server that is registered and connected, and the unprefixed tool name
\* passes that server's allow/deny lists.
C1_CatalogOnlyReadyAllowed ==
    \A order \in MapOrders :
        \A i \in 1..Len(GetAllTools(order)) :
            \E n \in DOMAIN Servers :
                /\ Servers[n].Connected
                /\ \E j \in 1..Len(Servers[n].Tools) :
                      /\ GetAllTools(order)[i].Name
                            = Servers[n].Name \o "__" \o Servers[n].Tools[j].Name
                      /\ ToolPasses(Servers[n], Servers[n].Tools[j].Name)

\* A disconnected server still holding tools sits next to a connected server
\* of which one tool is filtered out and one is emitted.
C1_Witness ==
    /\ \E n \in DOMAIN Servers : ~Servers[n].Connected /\ Servers[n].Tools # <<>>
    /\ \E n \in DOMAIN Servers :
          /\ Servers[n].Connected
          /\ \E j \in 1..Len(Servers[n].Tools) :
                ~ToolPasses(Servers[n], Servers[n].Tools[j].Name)
          /\ \E j \in 1..Len(Servers[n].Tools) :
                ToolPasses(Servers[n], Servers[n].Tools[j].Name)
    /\ \E order \in MapOrders : Len(GetAllTools(order)) = 1

NoDuplicateTools(s) ==
    \A i, j \in 1..Len(s.Tools) : s.Tools[i].Name = s.Tools[j].Name => i = j

\* C2: the names returned by GetAllTools() and by GetToolsForWorkspace() are
\* pairwise distinct (read charitably: when no server advertises one tool
\* name twice in its own list).
C2_CatalogNamesDistinct ==
    (\A n \in DOMAIN Servers : NoDuplicateTools(Servers[n])) =>
        \A order \in MapOrders :
            /\ \A i, j \in 1..Len(GetAllTools(order)) :
                  GetAllTools(order)[i].Name = GetAllTools(order)[j].Name => i = j
            /\ \A w \in Workspaces :
                  \A i, j \in 1..Len(GetToolsForWorkspace(order, w)) :
                      GetToolsForWorkspace(order, w)[i].Name
                        = GetToolsForWorkspace(order, w)[j].Name => i = j

\* The tools of one server that pass the rule, prefixed, in list order.
ExpectedTools(s) ==
    LET kept == SelectSeq(s.Tools, LAMBDA t : ToolPasses(s, t.Name))
    IN  [i \in DOMAIN kept |-> MCPToolDef(s.Name \o "__" \o kept[i].Name)]

RECURSIVE ExpectedCatalog(_)
ExpectedCatalog(order) ==
    IF order = <<>> THEN <<>>
    ELSE (IF Servers[Head(order)].Connected THEN ExpectedTools(Servers[Head(order)]) ELSE <<>>)
         \o ExpectedCatalog(Tail(order))

\* C3: a tool of a connected server is emitted iff it is in the allow-list
\* when that list is non-empty (the deny-list is then ignored), and iff it is
\* not in the deny-list when the allow-list is empty: the catalog is exactly
\* the tools of the connected servers that pass this rule.
C3_EmittedIffListsPass ==
    \A order \in MapOrders : GetAllTools(order) = ExpectedCatalog(order)

\* A connected server emits a tool that is in both its allow-list and its
\* deny-list, and drops one that is in neither.
C3_Witness ==
    \E n \in DOMAIN Servers :
        /\ Servers[n].Connected
        /\ Servers[n].ToolAllowList # <<>>
        /\ \E j \in 1..Len(Servers[n].Tools) :
              /\ Servers[n].Tools[j].Name \in Range(Servers[n].ToolDenyList)
              /\ MCPToolDef(prefixedName(Servers[n], Servers[n].Tools[j]))
                    \in Range(GetAllTools(<<n>>))
        /\ \E j \in 1..Len(Servers[n].Tools) :
              /\ Servers[n].Tools[j].Name \notin Range(Servers[n].ToolDenyList)
              /\ MCPToolDef(prefixedName(Servers[n], Servers[n].Tools[j]))
                    \notin Range(GetAllTools(<<n>>))

\* C4: GetToolsForWorkspace(w) is GetAllTools() restricted to the servers
\* that admit w.
C4_WorkspaceCatalog ==
    \A order \in MapOrders : \A w \in Workspaces :
        GetToolsForWorkspace(order, w)
            = GetAllTools(SelectSeq(order, LAMBDA n : Admits(Servers[n], w)))

\* Two connected servers with tools, one restricted to w1 and one without
\* restriction: for w2 only the unrestricted server contributes.
C4_Witness ==
    \E order \in MapOrders :
        /\ Len(order) = 2
        /\ Servers[order[1]].WorkspaceAllowList = <<"w1">>
        /\ Servers[order[2]].WorkspaceAllowList = <<>>
        /\ Servers[order[2]].WorkspaceDenyList = <<>>
        /\ GetAllTools(<<order[1]>>) # <<>>
        /\ GetAllTools(<<order[2]>>) # <<>>
        /\ GetToolsForWorkspace(order, "w2") = GetAllTools(<<order[2]>>)
        /\ GetToolsForWorkspace(order, "w1") = GetAllTools(order)

\* C5: a server is connected, and its tools are in the catalog, only after the
\* initialize response has been received, i.e. its capabilities recorded.
C5_ReadyOnlyAfterHandshake ==
    \A n \in DOMAIN Servers :
        /\ Servers[n].Connected => Servers[n].Capabilities # Nil
        /\ GetAllTools(<<n>>) # <<>> => Servers[n].Capabilities # Nil

(***************************************************************************)
(* Claims about the schedule provider.                                     *)
(***************************************************************************)
\* The wall clock of the configured timezone at the current instant.
Local == In(now, location)
LocalMins == Local.hour * 60 + Local.minute

ThreeLetter == <<"sun", "mon", "tue", "wed", "thu", "fri", "sat">>

\* The day rule as the specification words it (weekday 1..5 is Monday to
\* Friday, 0 and 6 are Sunday and Saturday).
DayListMatches(days, wd) ==
    \/ days = <<>>
    \/ \E d \in Range(days) :
          \/ ToLower(d) = ThreeLetter[wd + 1]
          \/ ToLower(d) = "weekday" /\ wd \in 1..5
          \/ ToLower(d) = "weekend" /\ wd \in {0, 6}

\* Minutes after midnight of the well-formed HH:MM strings of the inputs.
ClockMinutes ==
    [c \in {"06:00", "09:00", "17:00", "22:00"} |->
        CASE c = "06:00" -> 6 * 60
          [] c = "09:00" -> 9 * 60
          [] c = "17:00" -> 17 * 60
          [] c = "22:00" -> 22 * 60]

WellFormed(hours) ==
    hours.Start \in DOMAIN ClockMinutes /\ hours.End \in DOMAIN ClockMinutes

\* The hour rule as the specification words it.
HourRangeContains(hours, mins) ==
    LET start == ClockMinutes[hours.Start]
        end == ClockMinutes[hours.End]
    IN  IF start <= end
        THEN start <= mins /\ mins < end
        ELSE mins >= start \/ mins < end

RuleContains(rule) ==
    /\ DayListMatches(rule.Days, Local.weekday)
    /\ ~rule.Hours.isNil => WellFormed(rule.Hours) /\ HourRangeContains(rule.Hours, LocalMins)

Matching == {i \in 1..Len(schedule.Rules) : RuleContains(schedule.Rules[i])}

FirstMatching == CHOOSE i \in Matching : \A j \in Matching : i <= j

\* The rule the schedule resolves to according to the specification.
Resolved == IF Matching = {} THEN schedule.Default ELSE schedule.Rules[FirstMatching]

\* C6: the schedule provider resolves to the first rule, in configuration
\* order, whose day-set contains the weekday and whose hour range contains the
\* time, and to the default provider and model when no rule matches.
C6_FirstMatchingRule ==
    /\ matchRule(schedule.Rules, now)
         = IF Matching = {} THEN [ok |-> FALSE, rule |-> NilRule]
           ELSE [ok |-> TRUE, rule |-> schedule.Rules[FirstMatching]]
    /\ selectRule(now) = [providerType |-> Resolved.Provider, model |-> Resolved.Model]
    /\ chat.called /\ chat.err = Nil => chat.dispatched.Provider = Resolved.Provider

\* Two rules naming different providers both match and Chat went to the
\* provider of the first.
C6_Witness ==
    /\ Len(schedule.Rules) = 2
    /\ Matching = {1, 2}
    /\ schedule.Rules[1].Provider # schedule.Rules[2].Provider
    /\ chat.called
    /\ ~chat.dispatched.isNil
    /\ chat.dispatched.Provider = schedule.Rules[1].Provider

\* C7: a rule with hours {start, end} matches the time of day in the
\* configured timezone iff start <= now < end when start <= end, and iff
\* now >= start or now < end when start > end.
C7_HourRange ==
    \A i \in 1..Len(schedule.Rules) :
        LET rule == schedule.Rules[i]
        IN  ~rule.Hours.isNil /\ WellFormed(rule.Hours) =>
               (matchRule(<<[rule EXCEPT !.Days = <<>>]>>, now).ok
                  <=> HourRangeContains(rule.Hours, LocalMins))

\* An overnight rule (22:00 to 06:00) matched at 05:00 local time and Chat was
\* dispatched to the rule's provider.
C7_Witness ==
    /\ Len(schedule.Rules) = 1
    /\ schedule.Rules[1].Hours = ScheduleHours("22:00", "06:00")
    /\ schedule.Rules[1].Days = <<>>
    /\ LocalMins = 5 * 60
    /\ matchRule(schedule.Rules, now).ok
    /\ chat.called
    /\ ~chat.dispatched.isNil
    /\ chat.dispatched.Provider = schedule.Rules[1].Provider

\* C8: a day list matches the weekday iff it contains the day's three-letter
\* name, or `weekday` on Monday to Friday, or `weekend` on Saturday or Sunday
\* (entries compared case-insensitively); an empty day list matches every day.
C8_DayList ==
    \A i \in 1..Len(schedule.Rules) :
        LET rule == schedule.Rules[i]
        IN  matchRule(<<[rule EXCEPT !.Hours = NilHours]>>, now).ok
               <=> DayListMatches(rule.Days, Local.weekday)

\* A rule whose day list holds a full day name and an upper-case alias
\* matched on a Friday, and Chat was dispatched to the rule's provider.
C8_Witness ==
    /\ Len(schedule.Rules) = 1
    /\ schedule.Rules[1].Days = <<"monday", "WEEKDAY">>
    /\ schedule.Rules[1].Hours.isNil
    /\ Local.weekday = 5
    /\ chat.called
    /\ ~chat.dispatched.isNil
    /\ chat.dispatched.Provider = schedule.Rules[1].Provider

\* C9: when the provider of the matching rule, or of the default when no rule
\* matches, is the schedule provider itself, resolution fails and Chat returns
\* that error without calling any provider.
C9_RecursiveScheduleFails ==
    Resolved.Provider = "schedule" =>
        /\ \A createFails \in BOOLEAN, id \in ResolvedModelIDs :
              /\ resolveProvider(now, createFails, id).err = RecursiveErr
              /\ resolveProvider(now, createFails, id).provider.isNil
        /\ chat.called => chat.err = RecursiveErr /\ chat.dispatched.isNil

\* No rule of a non-empty schedule matches, the default names the schedule
\* provider, and Chat has returned the error.
C9_Witness ==
    /\ schedule.Rules # <<>>
    /\ Matching = {}
    /\ schedule.Default.Provider = "schedule"
    /\ chat.called
    /\ chat.err = RecursiveErr
    /\ chat.dispatched.isNil

(***************************************************************************)
(* Claims about the fallback chain.                                        *)
(***************************************************************************)
\* C10: while a (provider, model) pair is in cooldown the chain dispatches no
\* Chat to it: no entry whose cooldown had not yet ended when a Chat through
\* the chain began was called by that Chat.
C10_CooldownSkipped ==
    fallback.called => fallback.dispatched \cap fallback.cooling = {}

\* A Chat through the chain, begun while the first entry was cooling down
\* after a failure, skipped it and was answered by the second entry.
C10_Witness ==
    /\ fallback.called
    /\ fallback.cooling = {1}
    /\ failures[1] > 0
    /\ fallback.skipped = {1}
    /\ fallback.dispatched = {2}
    /\ fallback.result = "ok"

(***************************************************************************)
(* Claims about the safety filter.                                         *)
(***************************************************************************)
\* The user's age, and whether a birth year is known and makes the user
\* younger than 13.
Age == year - filter.birthYear

YoungerThan13 == filter.birthYear # 0 /\ Age < 13

\* The lower-cased text contains a keyword of the set.
Hits(text, keywords) == \E kw \in keywords : Contains(lowerChars(text), kw)

AdultSet == Range(adultKeywords)
DangerousSet == Range(mediumBlockKeywords)
TeenTopicSet == Range(teenOnlyTopics)
SensitiveSet == Range(sensitiveTopics)

\* The keyword sets the claim names for a level and user.
BlockingSet ==
    IF filter.level = LevelLow THEN AdultSet
    ELSE IF filter.level \in {LevelMedium, LevelHigh}
    THEN AdultSet \cup DangerousSet
         \cup (IF filter.level = LevelHigh /\ YoungerThan13 THEN TeenTopicSet ELSE {})
    ELSE {}

\* C11: at the levels low, medium and high CheckContent(text) blocks iff the
\* lower-cased text contains a keyword of the adult set (low), of the adult
\* or the dangerous set (medium, high), or, at high with a user younger than
\* 13, of the teen-topic set; at level off nothing is blocked.
C11_CheckContentBlocks ==
    safety.op = "CheckContent" =>
        /\ filter.level \in {LevelLow, LevelMedium, LevelHigh} =>
               (safety.blocked <=> Hits(safety.content, BlockingSet))
        /\ filter.level = LevelOff => ~safety.blocked

\* At level high a text that names only a teen topic is blocked for a user
\* younger than 13.
C11_Witness ==
    /\ safety.op = "CheckContent"
    /\ filter.level = LevelHigh
    /\ YoungerThan13
    /\ Hits(safety.content, TeenTopicSet)
    /\ ~Hits(safety.content, AdultSet \cup DangerousSet)
    /\ safety.blocked

\* C12: when CheckContent blocks the response, CheckResponse returns
\* blocked, not safe and a non-empty blockedMessage; otherwise it returns
\* safe and not blocked, and at level high with a user younger than 13 a
\* hit of the sensitive-topic set sets needsApproval.  No result is both
\* blocked and safe, and at level off the result is safe, not blocked and
\* without the approval flag.
C12_CheckResponse ==
    safety.op = "CheckResponse" =>
        /\ checkContent(safety.content).blocked =>
               /\ safety.result.Blocked
               /\ ~safety.result.Safe
               /\ safety.result.BlockedMessage # ""
        /\ ~checkContent(safety.content).blocked =>
               /\ safety.result.Safe
               /\ ~safety.result.Blocked
               /\ (/\ filter.level = LevelHigh
                   /\ YoungerThan13
                   /\ Hits(safety.content, SensitiveSet)) => safety.result.NeedsApproval
        /\ ~(safety.result.Blocked /\ safety.result.Safe)
        /\ filter.level = LevelOff =>
               /\ safety.result.Safe
               /\ ~safety.result.Blocked
               /\ ~safety.result.NeedsApproval

\* At level high a response about grief passes CheckContent for a user
\* younger than 13 and comes back safe with the approval flag.
C12_Witness ==
    /\ safety.op = "CheckResponse"
    /\ filter.level = LevelHigh
    /\ YoungerThan13
    /\ Hits(safety.content, SensitiveSet)
    /\ ~checkContent(safety.content).blocked
    /\ safety.result.NeedsApproval
    /\ safety.result.Safe

\* C13: GetSystemPrompt returns the empty string iff there is no birth year
\* (none is a value that is not positive) and the level is off.
C13_PromptEmptyIffNoSettings ==
    safety.op = "GetSystemPrompt" =>
        (safety.prompt = "" <=> (~(filter.birthYear > 0) /\ filter.level = LevelOff))

\* With a birth year and level off the prompt is not empty.
C13_Witness ==
    /\ safety.op = "GetSystemPrompt"
    /\ filter.birthYear > 0
    /\ filter.level = LevelOff
    /\ safety.prompt # ""

\* C14: with age = current year - birth year the user is young iff age < 13
\* and teen iff 13 <= age <= 17 (adult otherwise); no user is both, and a
\* user with no birth year is neither.
C14_AgeBands ==
    safety.op = "AgeBand" =>
        /\ filter.birthYear # 0 =>
               /\ safety.young <=> Age < 13
               /\ safety.teen <=> (13 <= Age /\ Age <= 17)
        /\ ~(safety.young /\ safety.teen)
        /\ filter.birthYear = 0 => (~safety.young /\ ~safety.teen)

\* A user of 18 years has been classified: neither young nor teen.
C14_Witness ==
    /\ safety.op = "AgeBand"
    /\ filter.birthYear # 0
    /\ Age = 18
    /\ ~safety.young
    /\ ~safety.teen

(***************************************************************************)
(* Claims about the memory engine.                                         *)
(***************************************************************************)
PointIDs(writes) == [k \in 1..Len(writes) |-> writes[k].ID]

SameArchiveInput(a, b) ==
    /\ a.workspace = b.workspace
    /\ a.session = b.session
    /\ a.messages = b.messages

\* C15: archiving the same messages of the same workspace and session twice
\* produces the same point ids both times, and the second archival leaves
\* the collection as the first one left it.
C15_ArchivalIdempotent ==
    \A i \in 1..(Len(archives) - 1) :
        (/\ SameArchiveInput(archives[i], archives[i + 1])
         /\ archives[i].err = Nil
         /\ archives[i + 1].err = Nil) =>
            /\ PointIDs(archives[i + 1].writes) = PointIDs(archives[i].writes)
            /\ archives[i + 1].after = archives[i].after

\* The text of a call, its window, overlap and step, as the claim names them.
TextOf(call) == archiveText(call.messages)
WindowSize == IF memConfig.ChunkSize > 0 THEN memConfig.ChunkSize ELSE 4096
Overlap == WindowSize \div 10
Step == WindowSize - Overlap
StartOf(k) == (k - 1) * Step
EndOf(k, n) == IF StartOf(k) + WindowSize < n THEN StartOf(k) + WindowSize ELSE n

\* The calls that chunked a text: the manager is enabled and the text is
\* not empty.
Chunked(call) == memConfig.Enabled /\ TextOf(call) # ""

ChunkingAsClaimed(text, chunks) ==
    IF Len(text) <= WindowSize
    THEN chunks = <<text>>
    ELSE /\ \A k \in 1..Len(chunks) :
               /\ chunks[k] = SubSeq(text, StartOf(k) + 1, EndOf(k, Len(text)))
               /\ Len(chunks[k]) <= WindowSize
         /\ \A k \in 1..(Len(chunks) - 1) :
               /\ EndOf(k, Len(text)) < Len(text)
               /\ EndOf(k, Len(text)) - StartOf(k + 1) = Overlap
               /\ SubSeq(chunks[k], Len(chunks[k]) - Overlap + 1, Len(chunks[k]))
                      = SubSeq(chunks[k + 1], 1, Overlap)
         /\ Len(chunks) >= 1
         /\ EndOf(Len(chunks), Len(text)) = Len(text)

\* C16: a text of n code points no longer than the window (4096 when the
\* configured size is not positive) is one chunk, the text itself; a longer
\* one is cut into chunks that start every window - window/10 code points,
\* have at most window code points, overlap their successor by window/10
\* code points, end at n with the last chunk and so cover the text; 9000
\* code points with a window of 4096 give 3 chunks.
C16_Chunking ==
    /\ \A i \in 1..Len(archives) :
           Chunked(archives[i]) => ChunkingAsClaimed(TextOf(archives[i]), archives[i].chunks)
    /\ Len(chunkBounds(9000, chunkSizeOf(4096))) = 3

\* A text longer than the window was cut into three or more chunks that
\* overlap.
C16_Witness ==
    \E i \in 1..Len(archives) :
        /\ Chunked(archives[i])
        /\ Len(TextOf(archives[i])) > WindowSize
        /\ Overlap >= 1
        /\ Len(archives[i].chunks) >= 3

\* What the points written by one call share.
WritesShareCall(call) ==
    \A k \in 1..Len(call.writes) :
        /\ call.writes[k].Payload.workspace_id = call.workspace
        /\ call.writes[k].Payload.session_id = call.session
        /\ call.writes[k].Payload.timestamp = call.writes[1].Payload.timestamp
        /\ call.writes[k].Payload.total_chunks = Len(call.chunks)
        /\ call.writes[k].Payload.chunk_index = k - 1

\* C17 as stated: the points written by one ArchiveSession call carry the
\* same workspace_id, session_id and timestamp, a total_chunks equal to the
\* number of chunks, and the chunk_index values 0..total_chunks-1 in write
\* order.
C17_WritesOfOneCall ==
    \A i \in 1..Len(archives) :
        archives[i].writes # <<>> =>
            /\ WritesShareCall(archives[i])
            /\ Len(archives[i].writes) = Len(archives[i].chunks)

\* C17 amended: the points written by one call share workspace_id,
\* session_id, timestamp and total_chunks (the number of chunks) and carry
\* the chunk_index values 0, 1, ... in write order; they are all of
\* 0..total_chunks-1 when the call returns without error, and a proper
\* prefix of it when an external call failed.
C17_WritesOfOneCallAmended ==
    \A i \in 1..Len(archives) :
        /\ WritesShareCall(archives[i])
        /\ Chunked(archives[i]) /\ archives[i].err = Nil =>
               Len(archives[i].writes) = Len(archives[i].chunks)
        /\ archives[i].err # Nil => Len(archives[i].writes) < Len(archives[i].chunks)

\* A call without error has written three or more points.
C17_Witness ==
    \E i \in 1..Len(archives) :
        /\ archives[i].err = Nil
        /\ Len(archives[i].writes) >= 3

SearchCalled == search.op \in {"Search", "SearchByDate"}

\* C18: the query of Search and of SearchByDate carries the filter
\* workspace_id = the caller's workspace, and no candidate and no result is
\* a point of another workspace.
C18_WorkspaceScoped ==
    SearchCalled =>
        /\ DOMAIN search.filters = {"workspace_id"}
        /\ search.filters["workspace_id"] = search.workspace
        /\ \A k \in 1..Len(search.candidates) :
               search.candidates[k].Payload.workspace_id = search.workspace
        /\ \A k \in 1..Len(search.results) :
               search.results[k].Payload.workspace_id = search.workspace

\* A search has returned points of its workspace while the collection also
\* holds points of another one.
C18_Witness ==
    /\ SearchCalled
    /\ search.results # <<>>
    /\ \E id \in DOMAIN points : points[id].Payload.workspace_id # search.workspace

\* a comes before b in the order asked for.
EarlierInOrder(a, b, order) ==
    IF order = "asc" THEN a.Payload.timestamp < b.Payload.timestamp
    ELSE a.Payload.timestamp > b.Payload.timestamp

\* The candidates sorted by timestamp, equal timestamps in similarity order.
StableSorted(candidates, order) ==
    LET p == CHOOSE q \in Orders(1..Len(candidates)) :
                 \A a, b \in 1..Len(candidates) :
                     a < b =>
                         /\ ~EarlierInOrder(candidates[q[b]], candidates[q[a]], order)
                         /\ candidates[q[a]].Payload.timestamp
                                = candidates[q[b]].Payload.timestamp => q[a] < q[b]
    IN  [k \in 1..Len(candidates) |-> candidates[p[k]]]

FirstOf(s, limit) == SubSeq(s, 1, IF limit < Len(s) THEN limit ELSE Len(s))

SearchByDateAsClaimed ==
    /\ ~search.panicked
    /\ search.requested = (IF search.limit * 10 > 50 THEN search.limit * 10 ELSE 50)
    /\ Len(search.results) <= search.limit
    /\ search.results = FirstOf(StableSorted(search.candidates, search.order), search.limit)

\* C19: SearchByDate(limit, order) requests max(limit * 10, 50) candidates
\* and returns the first limit of them after a stable sort by timestamp,
\* ascending for asc and descending otherwise.
C19_SearchByDate ==
    search.op = "SearchByDate" => SearchByDateAsClaimed

\* The same for a limit that is not negative.
SearchByDateWithinLimit ==
    (search.op = "SearchByDate" /\ search.limit >= 0) => SearchByDateAsClaimed

(***************************************************************************)
(* Claims about the activity buffer.                                       *)
(***************************************************************************)
\* The last n elements of a sequence (all of it when it is shorter).
LastOf(s, n) == IF Len(s) <= n THEN s ELSE SubSeq(s, Len(s) - n + 1, Len(s))

\* C20: whatever the callers and their interleaving, a buffer of capacity N
\* holds at most N events, and they are the most recently added ones in the
\* order they were added: an Add on a full buffer evicts the oldest event.
C20_BufferKeepsNewest ==
    /\ Len(buffer.events) <= buffer.size
    /\ buffer.events = LastOf(added, buffer.size)

\* Two events have been evicted from a full buffer of capacity 2 or more
\* while another caller is waiting for the mutex.
C20_Witness ==
    /\ buffer.size >= 2
    /\ Len(added) = buffer.size + 2
    /\ Len(buffer.events) = buffer.size
    /\ \E c \in Callers : adding[c].pc = "lock"

(***************************************************************************)
(* Claims about the gateway.                                               *)
(***************************************************************************)
Served == delivery # NoDelivery

\* The request is for /webhook/{id} (with or without a closing slash).
IsWebhookPath(path, id) == path \in {"/webhook/" \o id, "/webhook/" \o id \o "/"}

NamesWebhook(path) == \E id \in DOMAIN webhooks : IsWebhookPath(path, id)

WebhookOf(path) == webhooks[CHOOSE id \in DOMAIN webhooks : IsWebhookPath(path, id)]

SignatureWellFormed(header) == HasPrefix(header, "sha256=")

SignatureValue(header) == SubSeq(header, Len("sha256=") + 1, Len(header))

SignatureMatches(req, webhook) ==
    /\ SignatureWellFormed(req.signature)
    /\ SignatureValue(req.signature) = hexMAC(webhook.Secret, req.body)

\* A POST to a configured webhook that, for format github, is signed.
Admitted(req) ==
    /\ req.method = "POST"
    /\ NamesWebhook(req.path)
    /\ WebhookOf(req.path).Format = "github" => SignatureMatches(req, WebhookOf(req.path))

\* The response the claim gives a request that is not admitted.
RejectionOf(req) ==
    IF req.method # "POST" THEN StatusMethodNotAllowed
    ELSE IF ~NamesWebhook(req.path) THEN StatusNotFound
    ELSE IF req.signature = "" THEN StatusUnauthorized
    ELSE IF ~SignatureWellFormed(req.signature) THEN StatusBadRequest
    ELSE StatusUnauthorized

\* C21 as stated: the handler calls the processor iff the request is a POST
\* to /webhook/{id} for a configured id and, for format github, carries a
\* well-formed matching X-Hub-Signature-256; otherwise the processor is not
\* called and the response is 405, 404, 401 or 400 by the case.
C21_ForwardedIffAdmitted ==
    Served =>
        /\ delivery.called <=> Admitted(delivery.req)
        /\ ~delivery.called => delivery.status = RejectionOf(delivery.req)

\* C21 amended: the same for a request whose body can be read; a POST to a
\* configured webhook whose body cannot be read is answered 500 without a
\* call of the processor, before any signature check.
C21_ForwardedIffAdmittedAndRead ==
    Served =>
        /\ delivery.called <=>
               (/\ delivery.req.method = "POST"
                /\ NamesWebhook(delivery.req.path)
                /\ ~delivery.req.readErr
                /\ Admitted(delivery.req))
        /\ ~delivery.called =>
               delivery.status =
                   IF /\ delivery.req.method = "POST"
                      /\ NamesWebhook(delivery.req.path)
                      /\ delivery.req.readErr
                   THEN StatusInternalServerError
                   ELSE RejectionOf(delivery.req)

\* A github webhook has been refused for a malformed signature header.
C21_Witness ==
    /\ Served
    /\ ~delivery.called
    /\ delivery.status = StatusBadRequest
    /\ delivery.req.signature # ""

\* C22: a github webhook request whose signature header is well-formed is
\* accepted iff the signature is the HMAC-SHA256 of the posted body under
\* the configured secret.
C22_SignatureExact ==
    (/\ Served
     /\ delivery.req.method = "POST"
     /\ NamesWebhook(delivery.req.path)
     /\ ~delivery.req.readErr
     /\ WebhookOf(delivery.req.path).Format = "github"
     /\ SignatureWellFormed(delivery.req.signature)) =>
        (delivery.called <=>
            SignatureValue(delivery.req.signature)
                = hexMAC(WebhookOf(delivery.req.path).Secret, delivery.req.body))

\* A signature made with the configured secret over another body has been
\* refused.
C22_Witness ==
    /\ Served
    /\ delivery.req.method = "POST"
    /\ NamesWebhook(delivery.req.path)
    /\ ~delivery.req.readErr
    /\ WebhookOf(delivery.req.path).Format = "github"
    /\ \E b \in Bodies \ {delivery.req.body} :
           delivery.req.signature = "sha256=" \o hexMAC(WebhookOf(delivery.req.path).Secret, b)
    /\ ~delivery.called
    /\ delivery.status = StatusUnauthorized

\* The agent a webhook runs under: default when none is configured.
EffectiveAgent(agent) == IF agent = "" THEN "default" ELSE agent

C26_OtherReplyForwarded ==
    \A k \in 1..Len(beats) :
        beats[k].err = Nil => (beats[k].sent <=> beats[k].response # "HEARTBEAT_OK")

\* C26 amended: the handler answers every reply with a silent result, so the
\* heartbeat sends nothing on the bus: the result holds "Heartbeat OK" for
\* the reply HEARTBEAT_OK and the reply itself for any other one; an error
\* of the agent gives an error result.
C26_EveryReplySilent ==
    /\ outbound = <<>>
    /\ \A k \in 1..Len(beats) :
           /\ ~beats[k].sent
           /\ beats[k].err = Nil =>
                  /\ beats[k].result.Silent
                  /\ ~beats[k].result.IsError
                  /\ beats[k].result.ForLLM =
                         IF beats[k].response = "HEARTBEAT_OK" THEN "Heartbeat OK"
                         ELSE beats[k].response
           /\ beats[k].err # Nil => beats[k].result.IsError /\ ~beats[k].result.Silent

\* A reply other than HEARTBEAT_OK has been answered with a silent result.
C26_Witness ==
    \E k \in 1..Len(beats) :
        /\ beats[k].err = Nil
        /\ beats[k].response = "Water the plants."
        /\ beats[k].result.Silent

(***************************************************************************)
(* Claims about the MCP tool adapter.                                      *)
(***************************************************************************)
\* The Text of the text-typed items of a call result, in order.
RECURSIVE textItems(_)
textItems(content) ==
    IF content = <<>> THEN <<>>
    ELSE (IF Head(content).Type = "text" THEN <<Head(content).Text>> ELSE <<>>)
         \o textItems(Tail(content))

CallFailed(call) == call.ret.err # Nil \/ call.ret.res.IsError

C31_PrefixRoutes ==
    \A i \in 1..Len(toolCalls) :
        toolCalls[i].entry # NoEntry =>
            /\ toolCalls[i].called
            /\ toolCalls[i].args = toolCalls[i].entry

(***************************************************************************)
(* Claims about the metrics decorator.                                     *)
(***************************************************************************)
\* The number of increments the request counter holds, over all labels.
RECURSIVE Total(_, _)
Total(counter, labels) ==
    IF labels = {} THEN 0
    ELSE counter[CHOOSE l \in labels : TRUE]
         + Total(counter, labels \ {CHOOSE l \in labels : TRUE})

GivenOrMain(c) == IF c.given = Nil THEN AgentTypeMain ELSE c.given

\* C25: every Chat of the decorator calls the wrapped provider once, returns
\* what it returned, and records one request and one duration observation,
\* whose status is error exactly when the wrapped call returned an error and
\* whose agent type is the one the context was given, main when none was.
C25_ChatRecordedOnce ==
    /\ Len(wrappedCalls) = Len(metricChats)
    /\ Len(registry.llmRequestDuration) = Len(metricChats)
    /\ Total(registry.llmRequests, DOMAIN registry.llmRequests) = Len(metricChats)
    /\ \A i \in 1..Len(metricChats) :
          /\ wrappedCalls[i] = [ctx |-> metricChats[i].ctx, model |-> metricChats[i].model]
          /\ metricChats[i].returned = metricChats[i].inner
          /\ registry.llmRequestDuration[i].labels[5] = "error"
                <=> metricChats[i].inner.err # Nil
          /\ registry.llmRequestDuration[i].labels[5] \in {"error", "success"}
          /\ registry.llmRequestDuration[i].labels[4] = GivenOrMain(metricChats[i])
          /\ <<metricChats[i].model, WrappedID, GivenOrMain(metricChats[i])>>
                \in DOMAIN registry.llmRequests

\* A failed Chat under a subagent context after a successful one under a
\* context with no agent type.
C25_Witness ==
    /\ Len(metricChats) = 2
    /\ metricChats[1].given = Nil
    /\ metricChats[1].inner.err = Nil
    /\ registry.llmRequestDuration[1].labels[4] = AgentTypeMain
    /\ metricChats[2].given = AgentTypeSubagent
    /\ metricChats[2].inner.err # Nil
    /\ registry.llmRequestDuration[2].labels[5] = "error"

(***************************************************************************)
(* Claims about the mailbox.                                               *)
(***************************************************************************)
Inbox(user) == {id \in DOMAIN mailbox : mailbox[id].To = user}

C28_ReadMessage ==
    [][/\ reading' # reading =>
             /\ reading'.err = Nil <=>
                   /\ reading'.msgID \in DOMAIN mailbox
                   /\ mailbox[reading'.msgID].To = reading'.user
             /\ reading'.err = Nil =>
                   /\ mailbox'[reading'.msgID].Read
                   /\ reading'.msg = mailbox'[reading'.msgID]
                   /\ \A id \in DOMAIN mailbox \ {reading'.msgID} :
                         mailbox'[id] = mailbox[id]
             /\ reading'.err # Nil =>
                   /\ mailbox' = mailbox
                   /\ reading'.err = IF reading'.msgID \in DOMAIN mailbox
                                     THEN "unauthorized" ELSE "message not found"
       /\ \A id \in DOMAIN mailbox :
             mailbox[id].Read => id \in DOMAIN mailbox' /\ mailbox'[id].Read]_vars

\* The sender of a message was refused, and the message is unread.
C28_Witness ==
    /\ reading.called
    /\ reading.err = "unauthorized"
    /\ reading.msgID \in DOMAIN mailbox
    /\ mailbox[reading.msgID].From = reading.user
    /\ ~mailbox[reading.msgID].Read
    /\ \E id \in DOMAIN mailbox : mailbox[id].Read

(***************************************************************************)
(* Claims about the family store.                                          *)
(***************************************************************************)
\* The call that moves chore id from one status to another, if any does.
TransitionCall(id, from, to) ==
    IF from = StatusPending /\ to = StatusCompleted
    THEN StoreCall("CompleteChore", chores[id].Assignee, id, FALSE, Nil)
    ELSE IF from = StatusCompleted /\ to = StatusVerified
    THEN StoreCall("VerifyChore", chores[id].Assigner, id, TRUE, Nil)
    ELSE IF from = StatusCompleted /\ to = StatusPending
    THEN StoreCall("VerifyChore", chores[id].Assigner, id, FALSE, Nil)
    ELSE NoStoreCall

\* Whether a call of CompleteChore or VerifyChore on a chore is one the
\* transitions allow.
Allowed(call) ==
    /\ call.id \in DOMAIN chores
    /\ \/ /\ call.op = "CompleteChore"
          /\ call.user = chores[call.id].Assignee
          /\ chores[call.id].Status = StatusPending
       \/ /\ call.op = "VerifyChore"
          /\ call.user = chores[call.id].Assigner
          /\ chores[call.id].Status = StatusCompleted

\* C29: in every step a chore stays in the store; its status changes only
\* from pending to completed by CompleteChore of its assignee, from completed
\* to verified by an approving VerifyChore of its assigner, or from completed
\* to pending by a rejecting one; a call by another user or in another status
\* returns an error and changes no chore; a verified chore never changes.
C29_ChoreTransitions ==
    [][/\ \A id \in DOMAIN chores :
             /\ id \in DOMAIN chores'
             /\ chores'[id].Status # chores[id].Status =>
                   /\ TransitionCall(id, chores[id].Status, chores'[id].Status) # NoStoreCall
                   /\ storeCall' =
                         TransitionCall(id, chores[id].Status, chores'[id].Status)
             /\ chores[id].Status = StatusVerified => chores'[id] = chores[id]
       /\ (storeCall' # storeCall /\ storeCall'.op \in {"CompleteChore", "VerifyChore"}) =>
             /\ storeCall'.err = Nil <=> Allowed(storeCall')
             /\ storeCall'.err # Nil => chores' = chores
             /\ storeCall'.err = Nil =>
                   /\ chores'[storeCall'.id].Status # chores[storeCall'.id].Status
                   /\ \A id \in DOMAIN chores \ {storeCall'.id} : chores'[id] = chores[id]
      ]_vars

\* A verified chore whose assigner and assignee were both just refused, beside
\* a chore that is pending.
C29_Witness ==
    /\ storeCall.err # Nil
    /\ storeCall.id \in DOMAIN chores
    /\ chores[storeCall.id].Status = StatusVerified
    /\ storeCall.user \in {chores[storeCall.id].Assigner, chores[storeCall.id].Assignee}
    /\ \E id \in DOMAIN chores :
          chores[id].Status = StatusPending /\ chores[id].Assigner # chores[id].Assignee

\* A list as its holder reads it in the arrays h: its items are the elements
\* its slice shows.
ListView(l, h) == [l EXCEPT !.Items = elems(h, l.Items)]

\* C30: a list leaves the store only by DeleteList of its creator; a
\* DeleteList of an existing list by its creator removes that list alone, and
\* by any other user returns an unauthorized error and leaves every list as
\* it was; and GetLists returns every list of the store as it is, items
\* included, whoever asks.
C30_DeleteByCreatorOnly ==
    [][/\ \A id \in DOMAIN lists \ DOMAIN lists' :
             storeCall' = StoreCall("DeleteList", lists[id].CreatedBy, id, FALSE, Nil)
       /\ (storeCall' # storeCall /\ storeCall'.op = "DeleteList"
              /\ storeCall'.id \in DOMAIN lists) =>
             IF storeCall'.user = lists[storeCall'.id].CreatedBy
             THEN /\ storeCall'.err = Nil
                  /\ DOMAIN lists' = DOMAIN lists \ {storeCall'.id}
                  /\ \A id \in DOMAIN lists' :
                        ListView(lists'[id], arrays') = ListView(lists[id], arrays)
             ELSE /\ storeCall'.err = "unauthorized to delete this list"
                  /\ lists' = lists
                  /\ arrays' = arrays
       /\ gotLists' # gotLists =>
             /\ Len(gotLists'.result) = Cardinality(DOMAIN lists)
             /\ \A id \in DOMAIN lists :
                   \E i \in 1..Len(gotLists'.result) :
                       ListView(gotLists'.result[i], arrays') = ListView(lists[id], arrays)
      ]_vars

\* A user who did not create a list was refused its deletion, and the list is
\* returned with its item by the GetLists that followed.
C30_Witness ==
    /\ storeCall.op = "DeleteList"
    /\ storeCall.err = "unauthorized to delete this list"
    /\ storeCall.id \in DOMAIN lists
    /\ Len(elems(arrays, lists[storeCall.id].Items)) = 1
    /\ gotLists.called
    /\ \E i \in 1..Len(gotLists.result) :
          ListView(gotLists.result[i], arrays) = ListView(lists[storeCall.id], arrays)

\* The lists of a result as the caller that holds it reads them.
RECURSIVE ResultView(_, _)
ResultView(result, h) ==
    IF result = <<>> THEN <<>>
    ELSE <<ListView(Head(result), h)>> \o ResultView(Tail(result), h)

\* C36: a list returned by GetLists is a copy: no later call of AddListItem,
\* UpdateListItem or DeleteList changes the name, the creator or the items
\* (their completed flags included) of a list in a result returned before.
C36_GetListsCopies ==
    [][gotLists' = gotLists =>
           ResultView(gotLists.result, arrays') = ResultView(gotLists.result, arrays)]_vars

\* C39: in every state of the family store a chore has a completion time iff
\* its status is completed or verified, and a verification time iff its
\* status is verified.
C39_ChoreTimes ==
    \A id \in DOMAIN chores :
        /\ chores[id].CompletedAt # NilTime <=>
               chores[id].Status \in {StatusCompleted, StatusVerified}
        /\ chores[id].VerifiedAt # NilTime <=> chores[id].Status = StatusVerified

\* A completed chore has just been rejected and is pending again, and
\* another one is verified.
C39_Witness ==
    /\ storeCall = StoreCall("VerifyChore", storeCall.user, storeCall.id, FALSE, Nil)
    /\ storeCall.id \in DOMAIN chores
    /\ chores[storeCall.id].Status = StatusPending
    /\ \E id \in DOMAIN chores : chores[id].Status = StatusVerified

(***************************************************************************)
(* Claims about the manager under concurrent callers.                      *)
(***************************************************************************)
\* C33: no caller is in a write of a server's Connected or Tools while
\* another caller is in a read or a write of the same field of the same
\* server.
C33_AccessesExclusive ==
    \A t, u \in Threads :
        (t # u /\ isWrite(threads[t].pc) /\ fieldAt(threads[u].pc) = fieldAt(threads[t].pc))
            => serverAt(threads[u]) # serverAt(threads[t])

RECURSIVE RequestLines(_)
RequestLines(lines) ==
    IF lines = <<>> THEN <<>>
    ELSE (IF Head(lines).valid THEN <<Head(lines)>> ELSE <<>>) \o RequestLines(Tail(lines))

KnownMethods == {"initialize", "tools/list", "tools/call"}

\* C37: the server answers each well-formed request line with exactly one
\* response line of the same id, in the order of the requests; a line that
\* is not JSON gets no response and does not end the loop; and a method
\* other than initialize, tools/list and tools/call gets an error response
\* of code -32601.
C37_OneResponsePerRequest ==
    /\ ~stopped
    /\ Len(stdout) = Len(RequestLines(stdin))
    /\ \A i \in 1..Len(stdout) :
          /\ stdout[i].ID = RequestLines(stdin)[i].id
          /\ RequestLines(stdin)[i].method \notin KnownMethods =>
                ~stdout[i].Error.isNil /\ stdout[i].Error.Code = -32601

(***************************************************************************)
(* Claims about the levels of the safety filter.                           *)
(***************************************************************************)
\* The rank of a level among low, medium and high.
LevelRank(level) ==
    IF level = LevelLow THEN 1 ELSE IF level = LevelMedium THEN 2 ELSE 3

Ranked(c) == c.called /\ c.level \in {LevelLow, LevelMedium, LevelHigh}

IsAdult(c) == c.birthYear # 0 /\ year - c.birthYear >= 18
IsUnder13(c) == c.birthYear # 0 /\ year - c.birthYear < 13

\* Check b is of the text of check a, for the same user at a higher level.
RaisedLevel(a, b) ==
    /\ Ranked(a) /\ Ranked(b)
    /\ a.content = b.content
    /\ a.birthYear = b.birthYear
    /\ LevelRank(a.level) < LevelRank(b.level)

\* Check b is of the text of check a at the same level, a for an adult and b
\* for a user younger than 13.
YoungerUser(a, b) ==
    /\ Ranked(a) /\ Ranked(b)
    /\ a.content = b.content
    /\ a.level = b.level
    /\ IsAdult(a) /\ IsUnder13(b)

Unblocks(a, b) == a.blocked /\ ~b.blocked

\* C40: a text that CheckContent blocks at level low is blocked at medium
\* and at high, one blocked at medium is blocked at high, and one blocked
\* for an adult is blocked for a user younger than 13 at the same level.
C40_RaisingNeverUnblocks ==
    /\ RaisedLevel(checked.prior, checked.last) => ~Unblocks(checked.prior, checked.last)
    /\ RaisedLevel(checked.last, checked.prior) => ~Unblocks(checked.last, checked.prior)
    /\ YoungerUser(checked.prior, checked.last) => ~Unblocks(checked.prior, checked.last)
    /\ YoungerUser(checked.last, checked.prior) => ~Unblocks(checked.last, checked.prior)

\* A text blocked at level low has then been checked, and blocked, at level
\* high for the same user.
C40_Witness ==
    /\ RaisedLevel(checked.prior, checked.last)
    /\ checked.prior.level = LevelLow /\ checked.last.level = LevelHigh
    /\ checked.prior.blocked /\ checked.last.blocked

(***************************************************************************)
(* Further claims about the MCP client manager.                            *)
(***************************************************************************)
\* C32: DisconnectServer on a registered server returns: the process has not
\* crashed, and the server is registered and not connected, so that
\* GetAllTools skips it and CallTool answers "not connected".
C32_DisconnectReturns ==
    [][\A name \in DOMAIN Servers :
          DisconnectServer(name) =>
              /\ ~crashed'
              /\ name \in DOMAIN Servers'
              /\ ~Servers'[name].Connected]_vars

(***************************************************************************)
(* Claims about memory_browse.                                             *)
(***************************************************************************)
\* C35: for every limit memory_browse passes on, zero and negative ones
\* included, SearchByDate returns at most max(limit, 0) results or an error;
\* it never crashes the process.
C35_BrowseLimit ==
    search.op = "SearchByDate" =>
        /\ ~search.panicked
        /\ Len(search.results) <= (IF search.limit > 0 THEN search.limit ELSE 0)

(***************************************************************************)
(* Claims about the external calls of ArchiveSession.                      *)
(***************************************************************************)
\* The call failed at embedding or storing a chunk.
ChunkFailed(call) == call.err \in {EmbedErr, StoreErr}

\* The index of the chunk the call failed at.
FailedIndex(call) == call.calls[Len(call.calls)].index

\* The positions of the calls of the given kind among the external calls.
CallsOf(call, op) == {j \in 1..Len(call.calls) : call.calls[j].op = op}

\* Chunks 0..i-1 are in the collection after the call and no chunk of index
\* i or more was written by it.
StoredBelowFailure(call) ==
    /\ \A k \in 0..(FailedIndex(call) - 1) :
          /\ chunkRecord(call.workspace, call.session, call.chunks, call.timestamp, k).ID
                 \in DOMAIN call.after
          /\ call.after[chunkRecord(call.workspace, call.session, call.chunks,
                                    call.timestamp, k).ID]
                 = chunkRecord(call.workspace, call.session, call.chunks, call.timestamp, k)
    /\ \A k \in 1..Len(call.writes) : call.writes[k].Payload.chunk_index < FailedIndex(call)
    /\ Len(call.writes) = FailedIndex(call)

\* Every EnsureCollection of the call comes after the Embed of chunk 0 and
\* before every Store.
EnsuredInOrder(call) ==
    \A j \in CallsOf(call, "EnsureCollection") :
        /\ \E e \in 1..(j - 1) : call.calls[e] = ExternalCall("Embed", 0)
        /\ \A w \in CallsOf(call, "Store") : j < w

\* C38 as stated: when embedding or storing chunk i fails, chunks 0..i-1
\* remain stored, no chunk of index i or more is written, and the collection
\* is ensured exactly once in the call, after chunk 0 has been embedded and
\* before the first write.
C38_FailureAtChunk ==
    \A i \in 1..Len(archives) :
        ChunkFailed(archives[i]) =>
            /\ StoredBelowFailure(archives[i])
            /\ Cardinality(CallsOf(archives[i], "EnsureCollection")) = 1
            /\ EnsuredInOrder(archives[i])

\* C38 amended: when embedding or storing chunk i fails, chunks 0..i-1
\* remain stored, no chunk of index i or more is written, and the collection
\* is ensured after chunk 0 has been embedded and before the first write,
\* exactly once in the call unless it was the embedding of chunk 0 that
\* failed, and then not at all.
C38_FailureAtChunkAmended ==
    \A i \in 1..Len(archives) :
        ChunkFailed(archives[i]) =>
            /\ StoredBelowFailure(archives[i])
            /\ Cardinality(CallsOf(archives[i], "EnsureCollection")) =
                   (IF archives[i].err = EmbedErr /\ FailedIndex(archives[i]) = 0
                    THEN 0 ELSE 1)
            /\ EnsuredInOrder(archives[i])

\* A call failed at embedding chunk 1 with chunk 0 stored, and another at
\* storing chunk 0.
C38_Witness ==
    /\ \E i \in 1..Len(archives) :
          /\ archives[i].err = EmbedErr
          /\ FailedIndex(archives[i]) = 1
          /\ Len(archives[i].writes) = 1
    /\ \E i \in 1..Len(archives) :
          /\ archives[i].err = StoreErr
          /\ FailedIndex(archives[i]) = 0

====
